---- MODULE Spec2Model ----
(***************************************************************************)
(* Orka remote-control protocol: the server's ConnectionManager and        *)
(* websocket endpoint (server/connection_manager.py, server/main_server.py)*)
(* the client's NetworkLogic (client/network_logic.py) and the binary      *)
(* media frame layout shared by both.                                      *)
(*                                                                         *)
(* Each endpoint is modelled against an arbitrary peer: what the peer      *)
(* sends is an input of the receiving action.  asyncio.wait_for is taken   *)
(* by its contract: the awaited future either completes first, or the      *)
(* timeout cancels it.  Coroutines are cut at their await points.          *)
(***************************************************************************)
EXTENDS Integers, Sequences, FiniteSets, TLC

\* ---------------------------------------------------------------- bounds
MaxConns == 1       \* websocket connections the server accepts
MaxCmds == 2        \* commands issued through send_command_to_client

\* ------------------------------------------------------------ vocabulary
NONE == "None"          \* Python None
ABSENT == "absent"      \* key missing from a dict / field not given
BogusId == 0            \* a command_id no Command object ever carried

Conns == 1..MaxConns    \* connection k is given client id k (uuid4: fresh)
Cmds == 1..MaxCmds      \* command ids, in order of creation

S1 == <<115, 49>>       \* the stream id "s1" as code points
S2 == <<115, 50>>       \* the stream id "s2"
StreamIds == {S1, S2}

DefaultReason == "Client disconnected"
ShutdownReason == "Server shutting down"

\* Python's `w in s` for strings
Contains(s, w) ==
    \E i \in 1..(Len(s) - Len(w) + 1) : SubSeq(s, i, i + Len(w) - 1) = w

VARIABLES
    endpoint,            \* which component this behaviour exercises
    \* ---- server: websocket_endpoint, one handler per connection
    conn,                \* position of the handler of connection k
    ws_open,             \* the server has not closed the websocket itself
    last_seen_time,      \* ClientInfo.last_seen_time: the event whose time it holds
    outbox,              \* the latest text message sent, and the websocket it went to
    \* ---- server: ConnectionManager
    active_connections,  \* client ids with a ClientInfo in the registry
    client_id_by_websocket, \* websocket -> client id
    pending_commands,    \* ClientInfo.pending_commands: command ids
    active_streams,      \* ClientInfo.active_streams
    recorders,           \* StreamManager._recorders: stream id -> the client whose
                         \* frame opened the writer (its name is in the file name)
    future,              \* the asyncio.Future created for a command
    \* ---- server: callers of send_command_to_client
    pc,                  \* position of the call made for command c
    target,              \* client id the command was addressed to
    result,              \* values the call returned to its caller
    log,                 \* the kind of the latest warning or error the server logged
    \* ---- server: cleanup_on_shutdown
    is_shutting_down,
    shutdown_todo,       \* active_client_ids still to be closed
    shutdown_cur,        \* client whose websocket.close() is awaited
    \* ---- server: the HTTP endpoint send_client_command
    http_status,         \* status code of the HTTP call made for command c, 0 before
    close_sent,          \* code and reason of the close the server sent on connection k
    \* ---- client: NetworkLogic
    is_running,
    reconnect_attempts,
    websocket,           \* NetworkLogic.websocket: None or the open connection
    client_id,           \* id assigned by the server, 0 for None
    ping_task,           \* NetworkLogic._ping_task
    receive_task,        \* NetworkLogic._receive_task
    pending_outgoing,    \* NetworkLogic._pending_outgoing_commands: command ids
    sup,                 \* position of connect_and_run
    delay,               \* the local `delay` of connect_and_run, 0 before the first
    shutdown_calls,      \* times shutdown_callback was awaited
    unsuccessful,        \* history: consecutive cycles that never reached Active
    cfuture,             \* the asyncio.Future of a send_command call
    cpc,                 \* position of the send_command call for command c
    cresult,             \* values that call returned
    client_outbox,       \* the latest text message the client sent
    clog,                \* the latest warning or error the client logged
    stop_pc,             \* position of NetworkLogic.stop
    stop_todo,           \* stream tasks of stop's list not yet cancelled
    active_video_streams,\* NetworkLogic._active_video_streams: stream ids
    stream_task,         \* per stream id, the latest task running _video_stream_loop
    unlisted_task,       \* per stream id, an earlier task that still runs, its entry
                         \* in the table now that of the latest task
    handler,             \* the command whose action handler the receive loop awaits
    emitted,             \* history: what the latest task of each stream id has sent
    media_sequence_counter, \* NetworkLogic._media_sequence_counter
    binary_sent,         \* history: the binary frames handed to the websocket, in order
    \* ---- binary frame in transit from send_binary_message to the server
    frame_args,          \* (prefix, sequence, stream_id_str, data) of the call
    wire,                \* the bytes handed to websocket.send, <<>> if none
    frame_seen           \* what handle_client_binary_message parsed

srvVars == <<conn, ws_open, last_seen_time, outbox, active_connections, client_id_by_websocket,
             pending_commands, active_streams, recorders, future, pc, target, result,
             log, is_shutting_down, shutdown_todo, shutdown_cur, http_status, close_sent>>

cliVars == <<is_running, reconnect_attempts, websocket, client_id, ping_task,
             receive_task, pending_outgoing, sup, delay, shutdown_calls, unsuccessful, cfuture, cpc, cresult, client_outbox, clog,
             stop_pc, stop_todo, active_video_streams, stream_task, unlisted_task,
             handler, emitted, media_sequence_counter, binary_sent>>

codecVars == <<frame_args, wire, frame_seen>>

mediaVars == <<media_sequence_counter, binary_sent>>

vars == <<endpoint, srvVars, cliVars, codecVars>>

\* ======================================================= binary media frame
IMG == <<73, 77, 71, 58>>     \* b"IMG:"
VID == <<86, 73, 68, 58>>     \* b"VID:"
NoStreamId == <<-1>>          \* Python None where a stream id is expected
DecodeError == [ok |-> FALSE]

\* int.to_bytes(4, "big"); OverflowError outside 0 .. 2^32-1
ToBytes4(n) ==
    <<(n \div 16777216) % 256, (n \div 65536) % 256, (n \div 256) % 256, n % 256>>

FromBytes4(b) == b[1] * 16777216 + b[2] * 65536 + b[3] * 256 + b[4]

\* str.encode("utf-8") for code points below U+0800
RECURSIVE Utf8Encode(_)
Utf8Encode(s) ==
    IF s = <<>> THEN <<>>
    ELSE LET cp == Head(s)
         IN (IF cp < 128 THEN <<cp>>
             ELSE <<192 + (cp \div 64), 128 + (cp % 64)>>) \o Utf8Encode(Tail(s))

\* bytes.decode("utf-8") succeeds (no UnicodeDecodeError)
RECURSIVE Utf8Valid(_)
Utf8Valid(b) ==
    IF b = <<>> THEN TRUE
    ELSE IF b[1] < 128 THEN Utf8Valid(Tail(b))
    ELSE IF b[1] >= 194 /\ b[1] <= 223 /\ Len(b) >= 2 /\ b[2] >= 128 /\ b[2] <= 191
         THEN Utf8Valid(SubSeq(b, 3, Len(b)))
    ELSE FALSE

\* bytes.decode("utf-8") of valid input
RECURSIVE Utf8Decode(_)
Utf8Decode(b) ==
    IF b = <<>> THEN <<>>
    ELSE IF b[1] < 128 THEN <<b[1]>> \o Utf8Decode(Tail(b))
    ELSE <<(b[1] - 192) * 64 + (b[2] - 128)>> \o Utf8Decode(SubSeq(b, 3, Len(b)))

\* a frame whose terminator is written only after a stream id
EncodeFrameBareHeader(prefix, sequence, stream_id_str, payload) ==
    prefix \o ToBytes4(sequence)
           \o (IF stream_id_str # NoStreamId /\ stream_id_str # <<>>
               THEN Utf8Encode(stream_id_str) \o <<0>> ELSE <<>>)
           \o payload

\* the frame NetworkLogic.send_binary_message hands to websocket.send
EncodeFrame(prefix, sequence, stream_id_str, payload) ==
    prefix \o ToBytes4(sequence)
           \o (IF stream_id_str # NoStreamId /\ stream_id_str # <<>>
               THEN Utf8Encode(stream_id_str) ELSE <<>>)
           \o <<0>> \o payload

\* index of the first NUL at or after position i (1-based), Len(b)+1 if none
RECURSIVE NulIndex(_, _)
NulIndex(b, i) ==
    IF i > Len(b) \/ b[i] = 0 THEN i ELSE NulIndex(b, i + 1)

\* a parse without the `stream_id_end_idx >= len(binary_data)` check
DecodeFrameNoTerminatorCheck(b) ==
    IF Len(b) < 4 + 4 + 1 THEN DecodeError
    ELSE IF \E i \in 1..4 : b[i] >= 128 THEN DecodeError
    ELSE LET end == NulIndex(b, 9)
             sid_bytes == SubSeq(b, 9, end - 1)
         IN IF ~Utf8Valid(sid_bytes) THEN DecodeError
            ELSE [ok |-> TRUE,
                  prefix |-> SubSeq(b, 1, 4),
                  sequence |-> FromBytes4(SubSeq(b, 5, 8)),
                  stream_id |-> IF sid_bytes = <<>> THEN NoStreamId
                                ELSE Utf8Decode(sid_bytes),
                  payload |-> SubSeq(b, end + 1, Len(b))]

\* the parse at the head of handle_client_binary_message
DecodeFrame(b) ==
    IF Len(b) < 4 + 4 + 1 THEN DecodeError
    ELSE IF \E i \in 1..4 : b[i] >= 128 THEN DecodeError
    ELSE LET end == NulIndex(b, 9)
         IN IF end > Len(b) THEN DecodeError
            ELSE LET sid_bytes == SubSeq(b, 9, end - 1)
                 IN IF ~Utf8Valid(sid_bytes) THEN DecodeError
                    ELSE [ok |-> TRUE,
                          prefix |-> SubSeq(b, 1, 4),
                          sequence |-> FromBytes4(SubSeq(b, 5, 8)),
                          stream_id |-> IF sid_bytes = <<>> THEN NoStreamId
                                        ELSE Utf8Decode(sid_bytes),
                          payload |-> SubSeq(b, end + 1, Len(b))]

\* ============================================================ server side
\* ---- wire format of text frames, as websocket.receive() returns them
EmptyDict == <<>>

TextFrame(json, type, pkind, payload) ==
    [frame |-> "text", json |-> json, type |-> type, pkind |-> pkind, payload |-> payload]

BytesFrame(b) == [frame |-> "bytes", bytes |-> b]

\* pydantic validation of the typed payloads (shared/message_models.py)
CommandResponseValid(p) == {"command_id", "status"} \subseteq DOMAIN p
PingMessageValid(p) == "timestamp" \in DOMAIN p
StreamStatusUpdateValid(p) == {"stream_id", "status"} \subseteq DOMAIN p

\* WebSocketMessage(**json.loads(text)) and the typed parse that follows it
\* in websocket_endpoint: "ok", or the exception that the loop catches
ServerParseText(m) ==
    IF m.json = "invalid" THEN "JSONDecodeError"
    ELSE IF m.json = "not_object" THEN "TypeError"
    ELSE IF m.type = ABSENT \/ m.pkind = "not_dict" THEN "ValidationError"
    ELSE IF m.pkind = "dict" /\ m.payload # EmptyDict
              /\ \/ m.type = "command_response" /\ ~CommandResponseValid(m.payload)
                 \/ m.type = "ping" /\ ~PingMessageValid(m.payload)
                 \/ m.type = "stream_status" /\ ~StreamStatusUpdateValid(m.payload)
         THEN "ValidationError"
    ELSE "ok"

\* the payload reached handle_client_text_message as a typed model
Typed(m) == m.pkind = "dict" /\ m.payload # EmptyDict

Get(p, k) == IF k \in DOMAIN p THEN p[k] ELSE ABSENT
Falsy(v) == v \in {ABSENT, NONE, "", "{}"}

\* ---- futures and the dicts send_command_to_client returns
NoPackage == [status |-> NONE]
NoFuture == [state |-> "none", value |-> NoPackage, exc |-> NONE]
PendingFuture == [state |-> "pending", value |-> NoPackage, exc |-> NONE]
Done(f) == f.state \in {"result", "exception", "cancelled"}

TimeoutText == "Timeout waiting for client response."
DisconnectText(c, reason) ==
    "Client disconnected before command " \o ToString(c) \o " response: " \o reason
NotConnectedText(cl) == "Client " \o ToString(cl) \o " not connected."

\* response_package of handle_command_response
ResponsePackage(p) ==
    [status |-> p.status,
     command_id |-> p.command_id,
     data |-> IF Falsy(Get(p, "data")) THEN NONE ELSE p.data,
     error_message |-> IF Falsy(Get(p, "error_message")) THEN NONE ELSE p.error_message]

ErrorDict(c, text) == [status |-> "error", command_id |-> c, error_message |-> text]

\* the same without the `except Exception` clause: the RuntimeError escapes
ReturnValueNoCatch(c, f) ==
    IF f.state = "result" THEN f.value
    ELSE IF f.state = "cancelled" THEN ErrorDict(c, TimeoutText)
    ELSE [status |-> "raised", command_id |-> c, error_message |-> f.exc]

\* what the try/except around wait_for returns, given the awaited future
ReturnValue(c, f) ==
    IF f.state = "result" THEN f.value
    ELSE IF f.state = "cancelled" THEN ErrorDict(c, TimeoutText)
    ELSE ErrorDict(c, "Server error: " \o f.exc)


\* ---- stream entries of ClientInfo.active_streams (dict of dicts)
NewStreamEntry ==
    [client_reported_status |-> ABSENT, dims |-> ABSENT,
     is_recording |-> ABSENT, last_frame_seq |-> <<>>]

\* ---- sending on a websocket: dropped (and logged) unless still connected
CanSend(cl) == conn[cl] \in {"registering", "loop"} /\ ws_open[cl]
Sent(cl, msg) ==
    IF CanSend(cl) THEN [to |-> cl, msg |-> msg] ELSE outbox
\* the log after that send, `prior` being the log before it
SentLog(cl, prior) ==
    IF CanSend(cl) THEN prior ELSE "send_failed"

Min(S) == CHOOSE x \in S : \A y \in S : x <= y

\* a disconnect whose loop over the table stops after its first entry
DisconnectedFutureFirstOnly(cl, c, reason) ==
    IF c \in pending_commands[cl] /\ ~Done(future[c]) /\ c = Min(pending_commands[cl])
    THEN [state |-> "exception", value |-> NoPackage, exc |-> DisconnectText(c, reason)]
    ELSE future[c]

\* ---- ConnectionManager.disconnect: what it makes of the future of command c
DisconnectedFuture(cl, c, reason) ==
    IF c \in pending_commands[cl] /\ ~Done(future[c])
    THEN [state |-> "exception", value |-> NoPackage, exc |-> DisconnectText(c, reason)]
    ELSE future[c]

\* ---- the websocket object of the connection whose ClientInfo has id cl
WebsocketOf(cl) == <<"websocket", cl>>

\* a disconnect that pops the ClientInfo and leaves the websocket index alone
manager_disconnect_keeps_websocket(cl, reason) ==
    IF cl \in active_connections
    THEN /\ active_connections' = active_connections \ {cl}
         /\ UNCHANGED client_id_by_websocket
         /\ future' = [c \in Cmds |-> DisconnectedFuture(cl, c, reason)]
         /\ pending_commands' = [pending_commands EXCEPT ![cl] = {}]
    ELSE UNCHANGED <<active_connections, client_id_by_websocket, future, pending_commands>>

manager_disconnect(cl, reason) ==
    IF cl \in active_connections
    THEN /\ active_connections' = active_connections \ {cl}
         /\ client_id_by_websocket' =
                [w \in DOMAIN client_id_by_websocket \ {WebsocketOf(cl)} |->
                    client_id_by_websocket[w]]
         /\ future' = [c \in Cmds |-> DisconnectedFuture(cl, c, reason)]
         /\ pending_commands' = [pending_commands EXCEPT ![cl] = {}]
    ELSE UNCHANGED <<active_connections, client_id_by_websocket, future, pending_commands>>

\* a handler without the `future.done()` guard, the error of set_result on
\* a finished future suppressed
handle_command_response_unguarded(cl, p) ==
    LET c == p.command_id IN
    IF cl \notin active_connections
    THEN /\ log' = "unknown_client"
         /\ UNCHANGED future
    ELSE IF c \notin pending_commands[cl]
    THEN /\ log' = "unknown_cmd"
         /\ UNCHANGED future
    ELSE /\ future' = [future EXCEPT ![c] =
                          [state |-> "result", value |-> ResponsePackage(p), exc |-> NONE]]
         /\ UNCHANGED log

\* ---- ConnectionManager.handle_command_response
handle_command_response(cl, p) ==
    LET c == p.command_id IN
    IF cl \notin active_connections
    THEN /\ log' = "unknown_client"
         /\ UNCHANGED future
    ELSE IF c \notin pending_commands[cl]
    THEN /\ log' = "unknown_cmd"
         /\ UNCHANGED future
    ELSE IF Done(future[c])
    THEN /\ log' = "already_done"
         /\ UNCHANGED future
    ELSE /\ future' = [future EXCEPT ![c] =
                          [state |-> "result", value |-> ResponsePackage(p), exc |-> NONE]]
         /\ UNCHANGED log


\* ---- handle_client_text_message
\* ---- StreamManager: stop_recording for each of the ids, and the recorder
\* part of process_video_frame, which opens a writer for a stream that is to
\* be recorded and has none
stop_recording(sids) == [sid \in DOMAIN recorders \ sids |-> recorders[sid]]

\* StreamManager._is_shutting_down: set by shutdown(), the last statement of
\* cleanup_on_shutdown
stream_manager_is_shutting_down ==
    is_shutting_down /\ shutdown_todo = {} /\ shutdown_cur = 0

\* what cv2.VideoWriter does with a frame: it is written, the writer cannot
\* be opened, or the write raises
RecorderOutcomes == {"written", "not_opened", "write_failed"}

\* a frame handler that leaves the writer in the table when its write raises
process_video_frame_keeps_writer(cl, sid, payload, out) ==
    IF stream_manager_is_shutting_down \/ payload = <<>>
          \/ active_streams[cl][sid].is_recording # "True"
    THEN [recorders |-> recorders, is_recording |-> active_streams[cl][sid].is_recording]
    ELSE LET opened == IF sid \in DOMAIN recorders \/ out = "not_opened" THEN recorders
                       ELSE (sid :> cl) @@ recorders
         IN IF sid \in DOMAIN opened /\ out = "write_failed"
            THEN [recorders |-> opened, is_recording |-> "False"]
            ELSE [recorders |-> opened, is_recording |-> "True"]

\* the recorder part of process_video_frame: nothing after shutdown() or for
\* a payload cv2.imdecode rejects (the empty one here); otherwise, for a
\* stream that is to be recorded, open the writer if there is none and write
process_video_frame(cl, sid, payload, out) ==
    IF stream_manager_is_shutting_down \/ payload = <<>>
          \/ active_streams[cl][sid].is_recording # "True"
    THEN [recorders |-> recorders, is_recording |-> active_streams[cl][sid].is_recording]
    ELSE LET opened == IF sid \in DOMAIN recorders \/ out = "not_opened" THEN recorders
                       ELSE (sid :> cl) @@ recorders
         IN IF sid \in DOMAIN opened /\ out = "write_failed"
            THEN [recorders |-> [k \in DOMAIN opened \ {sid} |-> opened[k]],
                  is_recording |-> "False"]
            ELSE [recorders |-> opened, is_recording |-> "True"]

StreamStatusEntry(cl, p) ==
    LET sid == p.stream_id
        e0 == IF sid \in DOMAIN active_streams[cl] THEN active_streams[cl][sid]
              ELSE NewStreamEntry
        e1 == [e0 EXCEPT !.client_reported_status = p.status,
                         !.dims = IF ~Falsy(Get(p, "dims")) THEN p.dims
                                  ELSE IF e0.dims = ABSENT THEN NONE ELSE e0.dims]
    IN IF p.status \in {"error_on_client", "stopped_by_client"}
       THEN [e1 EXCEPT !.is_recording = "False"]
       ELSE e1

\* a dispatch that looks the command up under the client it was sent to,
\* whoever answers
handle_client_text_message_by_command(cl, m) ==
    IF m.type = "command_response" /\ Typed(m)
    THEN /\ handle_command_response(
                IF m.payload.command_id \in Cmds /\ target[m.payload.command_id] # 0
                THEN target[m.payload.command_id] ELSE cl, m.payload)
         /\ UNCHANGED <<outbox, active_streams, recorders>>
    ELSE IF m.type = "ping" /\ Typed(m)
    THEN /\ outbox' = Sent(cl, [type |-> "pong", timestamp |-> m.payload.timestamp])
         /\ log' = SentLog(cl, log)
         /\ UNCHANGED <<future, active_streams, recorders>>
    ELSE IF m.type = "stream_status" /\ Typed(m)
    THEN /\ active_streams' = [active_streams EXCEPT ![cl] =
                (m.payload.stream_id :> StreamStatusEntry(cl, m.payload)) @@ active_streams[cl]]
         /\ recorders' = IF m.payload.status \in {"error_on_client", "stopped_by_client"}
                         THEN stop_recording({m.payload.stream_id})
                         ELSE recorders
         /\ UNCHANGED <<future, log, outbox>>
    ELSE /\ log' = (IF m.type \in {"command_response", "ping", "stream_status"}
                                THEN "invalid_or_missing_payload" ELSE "unhandled_type")
         /\ UNCHANGED <<future, outbox, active_streams, recorders>>

handle_client_text_message(cl, m) ==
    IF m.type = "command_response" /\ Typed(m)
    THEN /\ handle_command_response(cl, m.payload)
         /\ UNCHANGED <<outbox, active_streams, recorders>>
    ELSE IF m.type = "ping" /\ Typed(m)
    THEN /\ outbox' = Sent(cl, [type |-> "pong", timestamp |-> m.payload.timestamp])
         /\ log' = SentLog(cl, log)
         /\ UNCHANGED <<future, active_streams, recorders>>
    ELSE IF m.type = "stream_status" /\ Typed(m)
    THEN /\ active_streams' = [active_streams EXCEPT ![cl] =
                (m.payload.stream_id :> StreamStatusEntry(cl, m.payload)) @@ active_streams[cl]]
         /\ recorders' = IF m.payload.status \in {"error_on_client", "stopped_by_client"}
                         THEN stop_recording({m.payload.stream_id})
                         ELSE recorders
         /\ UNCHANGED <<future, log, outbox>>
    ELSE /\ log' = (IF m.type \in {"command_response", "ping", "stream_status"}
                                THEN "invalid_or_missing_payload" ELSE "unhandled_type")
         /\ UNCHANGED <<future, outbox, active_streams, recorders>>

\* ---- handle_client_binary_message
MediaType(prefix) ==
    IF prefix = IMG THEN "image" ELSE IF prefix = VID THEN "video_frame" ELSE "unknown"

\* a handler that acknowledges a frame only once it has decided to keep it
handle_client_binary_message_ack_kept(cl, b) ==
    LET f == DecodeFrame(b)
        kept == f.prefix = IMG \/ (f.prefix = VID /\ f.stream_id # NoStreamId
                                     /\ f.stream_id \in DOMAIN active_streams[cl])
    IN
    IF ~f.ok
    THEN /\ log' = "malformed_binary"
         /\ UNCHANGED <<outbox, active_streams, recorders>>
    ELSE /\ outbox' = IF kept
                      THEN Sent(cl, [type |-> "media_ack", media_type |-> MediaType(f.prefix),
                                     sequence |-> f.sequence, stream_id |-> f.stream_id])
                      ELSE outbox
         /\ IF f.prefix = VID /\ kept
            THEN /\ \E out \in (IF active_streams[cl][f.stream_id].is_recording = "True"
                                THEN RecorderOutcomes ELSE {"written"}) :
                        LET r == process_video_frame(cl, f.stream_id, f.payload, out) IN
                        /\ active_streams' = [active_streams EXCEPT
                               ![cl][f.stream_id].last_frame_seq = <<f.sequence>>,
                               ![cl][f.stream_id].is_recording = r.is_recording]
                        /\ recorders' = r.recorders
                 /\ log' = SentLog(cl, log)
            ELSE /\ UNCHANGED <<active_streams, recorders>>
                 /\ log' = IF f.prefix = IMG THEN SentLog(cl, log)
                           ELSE IF f.prefix # VID THEN "unknown_prefix"
                           ELSE IF f.stream_id = NoStreamId THEN "vid_without_stream_id"
                           ELSE "vid_unknown_stream"

handle_client_binary_message(cl, b) ==
    LET f == DecodeFrame(b) IN
    IF ~f.ok
    THEN /\ log' = "malformed_binary"
         /\ UNCHANGED <<outbox, active_streams, recorders>>
    ELSE /\ outbox' = Sent(cl, [type |-> "media_ack", media_type |-> MediaType(f.prefix),
                                 sequence |-> f.sequence, stream_id |-> f.stream_id])
         /\ IF f.prefix = VID /\ f.stream_id # NoStreamId
                /\ f.stream_id \in DOMAIN active_streams[cl]
            THEN /\ \E out \in (IF active_streams[cl][f.stream_id].is_recording = "True"
                                THEN RecorderOutcomes ELSE {"written"}) :
                        LET r == process_video_frame(cl, f.stream_id, f.payload, out) IN
                        /\ active_streams' = [active_streams EXCEPT
                               ![cl][f.stream_id].last_frame_seq = <<f.sequence>>,
                               ![cl][f.stream_id].is_recording = r.is_recording]
                        /\ recorders' = r.recorders
                 /\ log' = SentLog(cl, log)
            ELSE /\ UNCHANGED <<active_streams, recorders>>
                 /\ log' = IF f.prefix = IMG THEN SentLog(cl, log)
                           ELSE IF f.prefix # VID THEN "unknown_prefix"
                           ELSE IF f.stream_id = NoStreamId THEN "vid_without_stream_id"
                           ELSE "vid_unknown_stream"

\* ---- frames a client may put on the wire
CommandResponsePayloads(ids) ==
    {[command_id |-> c, status |-> "success", data |-> "{ok}"] : c \in ids}
    \cup {[command_id |-> c, status |-> "error", error_message |-> "Unknown action: x"] : c \in ids}

StreamStatusPayloads == {[stream_id |-> S1, status |-> "stopped_by_client"]}

ShortFrame == BytesFrame(SubSeq(VID, 1, 3))
UnterminatedFrame == BytesFrame(VID \o ToBytes4(1) \o Utf8Encode(S1))

UndecodableFrames ==
    {TextFrame("invalid", ABSENT, "absent", EmptyDict),
     TextFrame("not_object", ABSENT, "absent", EmptyDict),
     TextFrame("object", ABSENT, "absent", EmptyDict),
     TextFrame("object", "ping", "not_dict", EmptyDict),
     TextFrame("object", "command_response", "dict", [x |-> 1]),
     ShortFrame, UnterminatedFrame}

UnknownTypeFrames == {TextFrame("object", "bogus", "absent", EmptyDict)}

IssuedIds == {c \in Cmds : pc[c] # "idle"}

\* the envelope NetworkLogic.send_command puts on the wire
ClientCommandFrame(c) ==
    TextFrame("object", "command", "dict", [command_id |-> c, action |-> "x"])

FramesFromClient ==
    UndecodableFrames \cup UnknownTypeFrames \cup {ClientCommandFrame(1)}
    \cup {TextFrame("object", "command_response", "dict", p) :
             p \in CommandResponsePayloads({BogusId})}
    \cup {TextFrame("object", "ping", "dict", [timestamp |-> 1])}
    \cup {TextFrame("object", "stream_status", "dict", p) : p \in StreamStatusPayloads}

\* ---- websocket_endpoint: the first message of a connection
ClientRegistrationValid(p) == {"client_name", "platform", "capabilities"} \subseteq DOMAIN p

NoFirstMessage == [frame |-> "none"]     \* nothing within REGISTRATION_TIMEOUT_SECONDS
ValidRegister ==
    TextFrame("object", "register", "dict",
              [client_name |-> "cam", platform |-> "linux", capabilities |-> "[]"])

FirstMessages ==
    {NoFirstMessage, ValidRegister,
     TextFrame("invalid", ABSENT, "absent", EmptyDict),
     TextFrame("not_object", ABSENT, "absent", EmptyDict),
     TextFrame("object", ABSENT, "absent", EmptyDict),
     TextFrame("object", "register", "not_dict", EmptyDict),
     TextFrame("object", "ping", "dict", [timestamp |-> 1]),
     TextFrame("object", "register", "absent", EmptyDict),
     TextFrame("object", "register", "dict", EmptyDict),
     TextFrame("object", "register", "dict", [client_name |-> "cam"])}

\* a check that does not look at the type of the envelope
RegistrationOutcomeAnyType(m) ==
    IF m.frame = "none" THEN "timeout"
    ELSE IF m.json # "object" THEN "invalid"
    ELSE IF m.type = ABSENT \/ m.pkind = "not_dict" THEN "invalid"
    ELSE IF m.pkind # "dict" \/ m.payload = EmptyDict THEN "invalid"
    ELSE "ok"

\* wait_for(receive_json()), WebSocketMessage(**dict), the test of type and
\* payload, ClientRegistration(**payload): "ok", or the except clause taken
\* (JSONDecodeError and ValidationError are ValueErrors)
RegistrationOutcome(m) ==
    IF m.frame = "none" THEN "timeout"
    ELSE IF m.json # "object" THEN "invalid"
    ELSE IF m.type = ABSENT \/ m.pkind = "not_dict" THEN "invalid"
    ELSE IF m.type # "register" \/ m.pkind # "dict" \/ m.payload = EmptyDict THEN "invalid"
    ELSE IF ~ClientRegistrationValid(m.payload) THEN "invalid"
    ELSE "ok"

RegistrationCloseReason(outcome) ==
    IF outcome = "timeout" THEN "Registration timeout" ELSE "Invalid registration data"

\* an acknowledgement that carries no id
AckRegistrationNoId(cl) == [type |-> "ack_registration", client_id |-> 0]

\* ServerAck(client_id=client_id, ...) in an ack_registration envelope
AckRegistration(cl) == [type |-> "ack_registration", client_id |-> cl]

\* ---- websocket_endpoint
Accept(cl) ==
    /\ endpoint = "server"
    /\ conn[cl] = "idle"
    /\ \A k \in DOMAIN conn : k < cl => conn[k] # "idle"
    /\ conn' = [conn EXCEPT ![cl] = IF is_shutting_down THEN "finished" ELSE "registering"]
    /\ close_sent' = [close_sent EXCEPT ![cl] =
            IF is_shutting_down THEN [code |-> 1012, reason |-> "Server is shutting down"]
            ELSE @]
    /\ UNCHANGED <<endpoint, cliVars, codecVars, http_status, ws_open, last_seen_time, outbox, active_connections, client_id_by_websocket,
                   pending_commands, active_streams, recorders, future, pc, target, result, log,
                   is_shutting_down, shutdown_todo, shutdown_cur>>

\* a valid register envelope arrived in time: manager.connect, ack_registration
RegisterOk(cl, m) ==
    /\ endpoint = "server"
    /\ conn[cl] = "registering"
    /\ RegistrationOutcome(m) = "ok"
    /\ active_connections' = active_connections \cup {cl}
    /\ client_id_by_websocket' = (WebsocketOf(cl) :> cl) @@ client_id_by_websocket
    /\ outbox' = Sent(cl, AckRegistration(cl))
    /\ last_seen_time' = [last_seen_time EXCEPT ![cl] = "registration"]
    /\ conn' = [conn EXCEPT ![cl] = "loop"]
    /\ UNCHANGED <<endpoint, cliVars, codecVars, http_status, close_sent, ws_open, pending_commands,
                   active_streams, recorders, future, pc, target, result, log,
                   is_shutting_down, shutdown_todo, shutdown_cur>>

\* registration timeout or invalid registration message: error, close 1008
RegisterFail(cl, m) ==
    /\ endpoint = "server"
    /\ conn[cl] = "registering"
    /\ RegistrationOutcome(m) # "ok"
    /\ LET reason == RegistrationCloseReason(RegistrationOutcome(m)) IN
          /\ outbox' = Sent(cl, [type |-> "error", message |-> reason])
          /\ close_sent' = [close_sent EXCEPT ![cl] = [code |-> 1008, reason |-> reason]]
    /\ ws_open' = [ws_open EXCEPT ![cl] = FALSE]
    /\ log' = "registration_failed"
    /\ conn' = [conn EXCEPT ![cl] = "finished"]
    /\ UNCHANGED <<endpoint, cliVars, codecVars, http_status, last_seen_time, active_connections, client_id_by_websocket,
                   pending_commands, active_streams, recorders, future, pc, target, result,
                   is_shutting_down, shutdown_todo, shutdown_cur>>

\* one turn of the message loop: receive a frame and handle it
Receive(cl, m) ==
    /\ endpoint = "server"
    /\ conn[cl] = "loop" /\ ws_open[cl]
    /\ last_seen_time' = [last_seen_time EXCEPT ![cl] = "frame"]
    /\ IF m.frame = "bytes"
       THEN /\ handle_client_binary_message(cl, m.bytes)
            /\ UNCHANGED future
       ELSE LET parse == ServerParseText(m) IN
            IF parse = "ok" THEN handle_client_text_message(cl, m)
            ELSE /\ outbox' = Sent(cl, [type |-> "error", message |->
                        IF parse = "JSONDecodeError" THEN "Invalid JSON format"
                        ELSE "Invalid message structure"])
                 /\ log' = SentLog(cl, parse)
                 /\ UNCHANGED <<future, active_streams, recorders>>
    /\ UNCHANGED <<endpoint, cliVars, codecVars, http_status, close_sent, conn, ws_open, active_connections, client_id_by_websocket, pending_commands,
                   pc, target, result, is_shutting_down, shutdown_todo, shutdown_cur>>

\* the connection ends (WebSocketDisconnect, or receive() after a disconnect
\* message): the finally block runs manager.disconnect with its default reason
Disconnected(cl) ==
    /\ endpoint = "server"
    /\ conn[cl] = "loop"
    /\ manager_disconnect(cl, DefaultReason)
    /\ recorders' = stop_recording(DOMAIN active_streams[cl])
    /\ conn' = [conn EXCEPT ![cl] = "finished"]
    /\ UNCHANGED <<endpoint, cliVars, codecVars, http_status, close_sent, ws_open, last_seen_time, outbox, active_streams,
                   pc, target, result, log, is_shutting_down, shutdown_todo, shutdown_cur>>


\* ---- the HTTP endpoint send_client_command
\* the status code FastAPI answers with, given what send_command_to_client
\* returned: `"Timeout" in None` raises a TypeError nothing catches (500)
HttpStatus(response) ==
    IF response.status # "error" THEN 200
    ELSE IF response.error_message = NONE THEN 500
    ELSE IF Contains(response.error_message, "Timeout") THEN 408
    ELSE IF Contains(response.error_message, "Client not connected") THEN 404
    ELSE 502

\* an endpoint that leaves the lookup to the manager
ClientFoundAlways(cl) == TRUE

\* `client_id not in manager.active_connections` is false
ClientFound(cl) == cl \in active_connections

\* ---- send_client_command and ConnectionManager.send_command_to_client,
\* one call per command, up to the first await: the endpoint's test of the
\* registry, the manager's lookup, Command and Future creation, table
\* entry, the command handed to send_json_message
Issue(cl) ==
    /\ endpoint = "server"
    /\ \E c \in Cmds :
        /\ pc[c] = "idle"
        /\ \A k \in Cmds : k < c => pc[k] # "idle"
        /\ target' = [target EXCEPT ![c] = cl]
        /\ IF ~ClientFound(cl)
           THEN /\ http_status' = [http_status EXCEPT ![c] = 404]
                /\ pc' = [pc EXCEPT ![c] = "not_found"]
                /\ UNCHANGED <<future, pending_commands, outbox, log, result>>
           ELSE IF cl \notin active_connections
           THEN LET r == [status |-> "error", error_message |-> NotConnectedText(cl)] IN
                /\ result' = [result EXCEPT ![c] = <<r>>]
                /\ http_status' = [http_status EXCEPT ![c] = HttpStatus(r)]
                /\ pc' = [pc EXCEPT ![c] = "done"]
                /\ UNCHANGED <<future, pending_commands, outbox, log>>
           ELSE /\ future' = [future EXCEPT ![c] = PendingFuture]
                /\ pending_commands' = [pending_commands EXCEPT ![cl] = @ \cup {c}]
                /\ outbox' = Sent(cl, [type |-> "command", command_id |-> c])
                /\ log' = SentLog(cl, log)
                /\ pc' = [pc EXCEPT ![c] = "sending"]
                /\ UNCHANGED <<result, http_status>>
    /\ UNCHANGED <<endpoint, cliVars, codecVars, close_sent, conn, ws_open, last_seen_time, active_connections, client_id_by_websocket,
                   active_streams, recorders, is_shutting_down, shutdown_todo, shutdown_cur>>

\* send_json_message returned (sent, or failed and logged): wait_for starts
SendDone(c) ==
    /\ endpoint = "server"
    /\ pc[c] = "sending"
    /\ pc' = [pc EXCEPT ![c] = "waiting"]
    /\ UNCHANGED <<endpoint, cliVars, codecVars, http_status, close_sent, conn, ws_open, last_seen_time, outbox,
                   active_connections, client_id_by_websocket, pending_commands, active_streams, recorders, future,
                   target, result, log, is_shutting_down, shutdown_todo, shutdown_cur>>

\* a timeout that gives up every wait on the same client
TimeoutCancelsAll(c) ==
    /\ endpoint = "server"
    /\ pc[c] = "waiting"
    /\ future[c].state = "pending"
    /\ future' = [d \in Cmds |-> IF target[d] = target[c] /\ future[d].state = "pending"
                                 THEN [future[d] EXCEPT !.state = "cancelled"]
                                 ELSE future[d]]
    /\ UNCHANGED <<endpoint, cliVars, codecVars, http_status, close_sent, conn, ws_open,
                   last_seen_time, outbox, active_connections, client_id_by_websocket, pending_commands,
                   active_streams, recorders, pc, target, result, log, is_shutting_down,
                   shutdown_todo, shutdown_cur>>

\* wait_for's timeout expires before the future completes: it cancels it
Timeout(c) ==
    /\ endpoint = "server"
    /\ pc[c] = "waiting"
    /\ future[c].state = "pending"
    /\ future' = [future EXCEPT ![c].state = "cancelled"]
    /\ UNCHANGED <<endpoint, cliVars, codecVars, http_status, close_sent, conn, ws_open, last_seen_time, outbox,
                   active_connections, client_id_by_websocket, pending_commands, active_streams, recorders,
                   pc, target, result, log, is_shutting_down, shutdown_todo, shutdown_cur>>

\* a return without the `finally` clause: the table entry stays
ReturnKeepsSlot(c) ==
    /\ endpoint = "server"
    /\ pc[c] = "waiting"
    /\ Done(future[c])
    /\ result' = [result EXCEPT ![c] = Append(@, ReturnValue(c, future[c]))]
    /\ http_status' = [http_status EXCEPT ![c] = HttpStatus(ReturnValue(c, future[c]))]
    /\ log' = IF future[c].state = "cancelled" THEN "timeout"
              ELSE IF future[c].state = "exception" THEN "error"
              ELSE log
    /\ pc' = [pc EXCEPT ![c] = "done"]
    /\ UNCHANGED <<endpoint, cliVars, codecVars, close_sent, conn, ws_open, last_seen_time, outbox,
                   active_connections, client_id_by_websocket, active_streams, recorders, future, target, pending_commands,
                   is_shutting_down, shutdown_todo, shutdown_cur>>

\* wait_for returns or raises; the except clauses build the dict, the finally
\* clause pops the table entry, and the call returns to its caller
Return(c) ==
    /\ endpoint = "server"
    /\ pc[c] = "waiting"
    /\ Done(future[c])
    /\ result' = [result EXCEPT ![c] = Append(@, ReturnValue(c, future[c]))]
    /\ http_status' = [http_status EXCEPT ![c] = HttpStatus(ReturnValue(c, future[c]))]
    /\ pending_commands' = [pending_commands EXCEPT ![target[c]] = @ \ {c}]
    /\ log' = IF future[c].state = "cancelled" THEN "timeout"
              ELSE IF future[c].state = "exception" THEN "error"
              ELSE log
    /\ pc' = [pc EXCEPT ![c] = "done"]
    /\ UNCHANGED <<endpoint, cliVars, codecVars, close_sent, conn, ws_open, last_seen_time, outbox,
                   active_connections, client_id_by_websocket, active_streams, recorders, future, target,
                   is_shutting_down, shutdown_todo, shutdown_cur>>

\* ---- cleanup_on_shutdown
\* stream_manager.shutdown() follows the loop over the clients without an
\* await: every recorder is released once no client is left to close
stream_manager_shutdown(todo) == IF todo = {} THEN <<>> ELSE recorders

ShutdownBegin ==
    /\ endpoint = "server"
    /\ ~is_shutting_down
    /\ is_shutting_down' = TRUE
    /\ shutdown_todo' = active_connections
    /\ recorders' = stream_manager_shutdown(active_connections)
    /\ UNCHANGED <<endpoint, cliVars, codecVars, http_status, close_sent, conn, ws_open, last_seen_time, outbox,
                   active_connections, client_id_by_websocket, pending_commands, active_streams, future,
                   pc, target, result, log, shutdown_cur>>

\* next id of the list: get_client_by_id, then await websocket.close(1012)
ShutdownClose ==
    /\ endpoint = "server"
    /\ is_shutting_down /\ shutdown_cur = 0 /\ shutdown_todo # {}
    /\ LET cl == Min(shutdown_todo) IN
          IF cl \in active_connections
          THEN /\ ws_open' = [ws_open EXCEPT ![cl] = FALSE]
               /\ close_sent' = [close_sent EXCEPT ![cl] =
                                    [code |-> 1012, reason |-> ShutdownReason]]
               /\ shutdown_cur' = cl
               /\ UNCHANGED <<shutdown_todo, recorders>>
          ELSE /\ shutdown_todo' = shutdown_todo \ {cl}     \* disconnect: not found
               /\ recorders' = stream_manager_shutdown(shutdown_todo \ {cl})
               /\ UNCHANGED <<ws_open, shutdown_cur, close_sent>>
    /\ UNCHANGED <<endpoint, cliVars, codecVars, http_status, conn, last_seen_time, outbox, active_connections, client_id_by_websocket,
                   pending_commands, active_streams, future, pc, target, result, log,
                   is_shutting_down>>

\* close() returned: manager.disconnect(client_id, "Server shutting down")
ShutdownDisconnect ==
    /\ endpoint = "server"
    /\ shutdown_cur # 0
    /\ manager_disconnect(shutdown_cur, ShutdownReason)
    /\ shutdown_todo' = shutdown_todo \ {shutdown_cur}
    /\ shutdown_cur' = 0
    /\ recorders' = stream_manager_shutdown(shutdown_todo \ {shutdown_cur})
    /\ UNCHANGED <<endpoint, cliVars, codecVars, http_status, close_sent, conn, ws_open, last_seen_time, outbox, active_streams,
                   pc, target, result, log, is_shutting_down>>

\* ---- the HTTP endpoint toggle_stream_recording: the first registered client
\* that lists the stream id (connections register in the order of their ids
\* wherever this endpoint is called); 404 and no effect if there is none
ToggleRecording(sid, action) ==
    /\ endpoint = "server"
    /\ LET found == {cl \in active_connections : sid \in DOMAIN active_streams[cl]} IN
          /\ found # {}
          /\ active_streams' = [active_streams EXCEPT ![Min(found)][sid].is_recording =
                                    IF action = "on" THEN "True" ELSE "False"]
    /\ recorders' = IF action = "on" THEN recorders ELSE stop_recording({sid})
    /\ UNCHANGED <<endpoint, cliVars, codecVars, http_status, close_sent, conn, ws_open, last_seen_time, outbox,
                   active_connections, client_id_by_websocket, pending_commands, future, pc, target, result, log,
                   is_shutting_down, shutdown_todo, shutdown_cur>>

\* no close frame sent yet
NoClose == [code |-> 0, reason |-> NONE]

\* the server before any connection, for the connections C
InitConnections(C) ==
    /\ conn = [k \in C |-> "idle"]
    /\ ws_open = [k \in C |-> TRUE]
    /\ last_seen_time = [k \in C |-> NONE]
    /\ pending_commands = [k \in C |-> {}]
    /\ active_streams = [k \in C |-> <<>>]
    /\ close_sent = [k \in C |-> NoClose]

InitServer ==
    /\ InitConnections(Conns)
    /\ outbox = [to |-> 0, msg |-> [type |-> NONE]]
    /\ active_connections = {}
    /\ client_id_by_websocket = <<>>
    /\ recorders = <<>>
    /\ future = [c \in Cmds |-> NoFuture]
    /\ pc = [c \in Cmds |-> "idle"]
    /\ target = [c \in Cmds |-> 0]
    /\ result = [c \in Cmds |-> <<>>]
    /\ log = NONE
    /\ is_shutting_down = FALSE
    /\ shutdown_todo = {}
    /\ shutdown_cur = 0
    /\ http_status = [c \in Cmds |-> 0]

\* ============================================================ client side
RECONNECT_DELAY_SECONDS == 5
MAX_RECONNECT_ATTEMPTS == 5
MaxCycles == 6      \* cycles in a row that fail to reach Active
MaxCalls == 1       \* calls of NetworkLogic.send_command
Calls == 1..MaxCalls \* their command ids, in order of creation
NoClientId == 0     \* client_id = None
\* the receive loop awaits no handler
NoHandler == [command_id |-> BogusId, action |-> NONE, stream_id |-> <<>>, sequence |-> 0]
\* nothing sent yet for a stream: stream_status messages by kind, frames
NoneEmitted == [started |-> 0, terminal |-> 0, frames |-> 0, failed |-> FALSE]

RECURSIVE Pow2(_)
Pow2(n) == IF n <= 0 THEN 1 ELSE 2 * Pow2(n - 1)

\* RECONNECT_DELAY_SECONDS * (2 ** min(reconnect_attempts - 1, 4))
BackoffDelay(attempts) ==
    RECONNECT_DELAY_SECONDS * Pow2(IF attempts - 1 < 4 THEN attempts - 1 ELSE 4)

\* ---- Task.cancel() on the task of _video_stream_loop: a CancelledError is
\* due at the await the task is suspended in
CancelStream(t) ==
    IF t = "created" THEN "cancelling_new"
    ELSE IF t \in {"streaming", "unopened"} THEN "cancelling"
    ELSE IF t = "failing" THEN "cancelling_failed"
    ELSE t

Cancelling == {"cancelling_new", "cancelling", "cancelling_failed"}

\* a task that has its finally clause ahead
Running == {"created", "streaming", "unopened", "failing"} \cup Cancelling

\* task.cancel() for the tasks registered under the ids in `sids`
CancelStreams(sids) ==
    [sid \in StreamIds |-> IF sid \in sids THEN CancelStream(stream_task[sid])
                           ELSE stream_task[sid]]

\* a disconnect that leaves the stream tasks and their table alone
handle_disconnect_keeps_streams ==
    /\ UNCHANGED <<stream_task, unlisted_task, active_video_streams>>
    /\ handler' = IF receive_task = "running" THEN NoHandler ELSE handler
    /\ ping_task' = IF ping_task = "running" THEN "cancelled" ELSE ping_task
    /\ receive_task' = IF receive_task = "running" THEN "cancelled" ELSE receive_task
    /\ websocket' = NONE
    /\ client_id' = NoClientId

\* ---- NetworkLogic._handle_disconnect (no await inside: one step)
handle_disconnect ==
    /\ stream_task' = CancelStreams(active_video_streams)
    /\ unlisted_task' = unlisted_task
    /\ active_video_streams' = {}
    /\ handler' = IF receive_task = "running" THEN NoHandler ELSE handler
    /\ ping_task' = IF ping_task = "running" THEN "cancelled" ELSE ping_task
    /\ receive_task' = IF receive_task = "running" THEN "cancelled" ELSE receive_task
    /\ websocket' = NONE
    /\ client_id' = NoClientId

\* ---- the finally clause of connect_and_run, up to its sleep or break
\* asleep is where the clause's asyncio.sleep suspends the coroutine, left
\* where its break (or a return the try block had pending) takes it
finally_clause_from(asleep, left) ==
    /\ handle_disconnect
    /\ IF ~is_running
       THEN /\ sup' = left
            /\ UNCHANGED <<is_running, reconnect_attempts, delay, shutdown_calls>>
       ELSE /\ reconnect_attempts' = reconnect_attempts + 1
            /\ IF reconnect_attempts + 1 > MAX_RECONNECT_ATTEMPTS
               THEN /\ is_running' = FALSE
                    /\ shutdown_calls' = shutdown_calls + 1
                    /\ sup' = left
                    /\ UNCHANGED delay
               ELSE /\ delay' = BackoffDelay(reconnect_attempts + 1)
                    /\ sup' = asleep
                    /\ UNCHANGED <<is_running, shutdown_calls>>

finally_clause == finally_clause_from("sleeping", "finished")

\* ---- connect_and_run
Start ==
    /\ endpoint = "client"
    /\ sup = "init"
    /\ is_running' = TRUE
    /\ sup' = "connecting"
    /\ UNCHANGED <<endpoint, srvVars, codecVars, stop_pc, stop_todo, active_video_streams, stream_task, unlisted_task,
                   handler, emitted, mediaVars, reconnect_attempts, websocket, client_id,
                   ping_task, receive_task, pending_outgoing, delay, shutdown_calls,
                   unsuccessful, cfuture, cpc, cresult, client_outbox, clog>>

\* websockets.connect raises: except clause, then the finally clause
ConnectFails ==
    /\ endpoint = "client"
    /\ sup = "connecting" /\ unsuccessful < MaxCycles
    /\ unsuccessful' = unsuccessful + 1
    /\ clog' = <<"connection_failed", 0>>
    /\ finally_clause
    /\ UNCHANGED <<endpoint, srvVars, codecVars, stop_pc, stop_todo, emitted, mediaVars, pending_outgoing, cfuture, cpc, cresult,
                   client_outbox>>

\* the transport is up: websocket stored, counter reset, register sent,
\* _perform_registration waits for the answer
ConnectOk ==
    /\ endpoint = "client"
    /\ sup = "connecting" /\ unsuccessful < MaxCycles
    /\ websocket' = "open"
    /\ reconnect_attempts' = 0
    /\ client_outbox' = [type |-> "register"]
    /\ sup' = "registering"
    /\ UNCHANGED <<endpoint, srvVars, codecVars, stop_pc, stop_todo, active_video_streams, stream_task, unlisted_task,
                   handler, emitted, mediaVars, is_running, client_id, ping_task,
                   receive_task, pending_outgoing, delay, shutdown_calls, unsuccessful,
                   cfuture, cpc, cresult, clog>>

\* ack_registration received: client_id stored, ping and receive tasks created
RegistrationOk(id) ==
    /\ endpoint = "client"
    /\ sup = "registering" /\ websocket = "open"
    /\ client_id' = id
    /\ ping_task' = "running"
    /\ receive_task' = "running"
    /\ unsuccessful' = 0
    /\ sup' = "active"
    /\ UNCHANGED <<endpoint, srvVars, codecVars, stop_pc, stop_todo, active_video_streams, stream_task, unlisted_task,
                   handler, emitted, mediaVars, is_running, reconnect_attempts, websocket,
                   pending_outgoing, delay, shutdown_calls, cfuture, cpc, cresult,
                   client_outbox, clog>>

\* ---- connect_and_run(startup_only=True), as unified_loop calls it
\* ack_registration received: client_id stored, then `return` inside
\* `async with websockets.connect(...)` and inside the try statement
StartupOnlyRegistered(id) ==
    /\ endpoint = "client"
    /\ sup = "registering" /\ websocket = "open"
    /\ client_id' = id
    /\ sup' = "startup_return"
    /\ UNCHANGED <<endpoint, srvVars, codecVars, stop_pc, stop_todo, active_video_streams, stream_task, unlisted_task,
                   handler, emitted, mediaVars, is_running, reconnect_attempts, websocket,
                   ping_task, receive_task, pending_outgoing, delay, shutdown_calls, unsuccessful, cfuture, cpc, cresult,
                   client_outbox, clog>>

\* the return leaves the `async with` block, whose exit closes the
\* connection, and then runs the finally clause before the call returns
StartupOnlyExit ==
    /\ endpoint = "client"
    /\ sup = "startup_return"
    /\ clog' = <<"connection_closed", 0>>
    /\ finally_clause_from("startup_sleeping", "returned")
    /\ UNCHANGED <<endpoint, srvVars, codecVars, stop_pc, stop_todo, emitted, mediaVars, pending_outgoing, unsuccessful,
                   cfuture, cpc, cresult, client_outbox>>

\* asyncio.sleep(delay) of the finally clause returned: the pending return
\* completes and connect_and_run hands control back to unified_loop
StartupOnlyReturn ==
    /\ endpoint = "client"
    /\ sup = "startup_sleeping"
    /\ sup' = "returned"
    /\ UNCHANGED <<endpoint, srvVars, codecVars, stop_pc, stop_todo, active_video_streams, stream_task, unlisted_task,
                   handler, emitted, mediaVars, is_running, reconnect_attempts, websocket,
                   client_id, ping_task, receive_task, pending_outgoing, delay,
                   shutdown_calls, unsuccessful, cfuture, cpc, cresult, client_outbox, clog>>

\* error answer, unexpected answer, timeout or closed connection:
\* _handle_disconnect("Registration failed."), continue, finally clause
RegistrationFails ==
    /\ endpoint = "client"
    /\ sup = "registering"
    /\ unsuccessful' = unsuccessful + 1
    /\ clog' = <<"registration_failed", 0>>
    /\ finally_clause
    /\ UNCHANGED <<endpoint, srvVars, codecVars, stop_pc, stop_todo, emitted, mediaVars, pending_outgoing, cfuture, cpc,
                   cresult, client_outbox>>

\* the server or the network closes the connection: the receive loop ends
ReceiveLoopEnds ==
    /\ endpoint = "client"
    /\ sup = "active" /\ receive_task = "running" /\ handler = NoHandler
    /\ receive_task' = "done"
    /\ websocket' = IF websocket = NONE THEN NONE ELSE "closed"
    /\ clog' = <<"connection_closed", 0>>
    /\ UNCHANGED <<endpoint, srvVars, codecVars, stop_pc, stop_todo, active_video_streams, stream_task, unlisted_task,
                   handler, emitted, mediaVars, is_running, reconnect_attempts, client_id,
                   ping_task, pending_outgoing, sup, delay, shutdown_calls, unsuccessful, cfuture, cpc, cresult, client_outbox>>

\* the ping loop finds the websocket closed or cleared and leaves its while loop
PingLoopEnds ==
    /\ endpoint = "client"
    /\ sup = "active" /\ ping_task = "running" /\ websocket # "open"
    /\ ping_task' = "done"
    /\ UNCHANGED <<endpoint, srvVars, codecVars, stop_pc, stop_todo, active_video_streams, stream_task, unlisted_task,
                   handler, emitted, mediaVars, is_running, reconnect_attempts, websocket,
                   client_id, receive_task, pending_outgoing, sup, delay, shutdown_calls,
                   unsuccessful, cfuture, cpc, cresult, client_outbox,
                   clog>>

\* asyncio.wait returned: the other task is cancelled, then the finally clause
SessionEnd ==
    /\ endpoint = "client"
    /\ sup = "active"
    /\ receive_task # "running" \/ ping_task # "running"
    /\ finally_clause
    /\ UNCHANGED <<endpoint, srvVars, codecVars, stop_pc, stop_todo, emitted, mediaVars, pending_outgoing, unsuccessful,
                   cfuture, cpc, cresult, client_outbox, clog>>

\* asyncio.sleep(delay) returned: back to `while self.is_running`.  The
\* tasks _handle_disconnect cancelled were made ready by cancel() and have
\* run their clauses before the timer of the sleep is due
Wake ==
    /\ endpoint = "client"
    /\ sup = "sleeping"
    /\ \A sid \in StreamIds : stream_task[sid] \notin Cancelling
    /\ sup' = IF is_running THEN "connecting" ELSE "finished"
    /\ UNCHANGED <<endpoint, srvVars, codecVars, stop_pc, stop_todo, active_video_streams, stream_task, unlisted_task,
                   handler, emitted, mediaVars, is_running, reconnect_attempts, websocket,
                   client_id, ping_task, receive_task, pending_outgoing, delay,
                   shutdown_calls, unsuccessful, cfuture, cpc, cresult, client_outbox, clog>>

\* ---- NetworkLogic.stop
\* stop from its clear() of the stream table (from = 1), from the return of
\* `await self._ping_task` (2) or of `await self._receive_task` (3), up to
\* the next await that suspends it: awaiting a task that has finished does
\* not suspend, awaiting a task just cancelled or websocket.close() does
stop_continue(from) ==
    LET awaitPing == from = 1 /\ ping_task = "running"
        awaitReceive == ~awaitPing /\ from <= 2 /\ receive_task = "running"
        awaitClose == ~awaitPing /\ ~awaitReceive /\ websocket = "open"
    IN /\ ping_task' = IF awaitPing THEN "cancelled" ELSE NONE
       /\ receive_task' = IF awaitPing THEN receive_task
                          ELSE IF awaitReceive THEN "cancelled" ELSE NONE
       /\ websocket' = IF awaitPing \/ awaitReceive \/ awaitClose THEN websocket ELSE NONE
       /\ handler' = IF awaitReceive THEN NoHandler ELSE handler
       /\ stop_pc' = IF awaitPing THEN "ping" ELSE IF awaitReceive THEN "receive"
                     ELSE IF awaitClose THEN "closing" ELSE "returned"

\* stop() is called while connect_and_run is under way
StopBegin ==
    /\ endpoint = "client"
    /\ stop_pc = "idle" /\ sup # "init"
    /\ is_running' = FALSE
    /\ IF active_video_streams # {}
       THEN /\ \E sid \in active_video_streams :
                  /\ stream_task' = CancelStreams({sid})
                  /\ stop_todo' = active_video_streams \ {sid}
            /\ stop_pc' = "streams"
            /\ UNCHANGED <<active_video_streams, ping_task, receive_task, websocket, handler>>
       ELSE /\ stop_continue(1)
            /\ UNCHANGED <<active_video_streams, stream_task, stop_todo>>
    /\ UNCHANGED <<endpoint, srvVars, codecVars, reconnect_attempts, client_id,
                   pending_outgoing, sup, delay, shutdown_calls, unsuccessful, cfuture,
                   cpc, cresult, client_outbox, clog, emitted, mediaVars, unlisted_task>>

\* the task stop() awaits has finished: stop goes on to its next await
StopResume ==
    /\ endpoint = "client"
    /\ \/ /\ stop_pc = "streams"
          /\ \A sid \in StreamIds : stream_task[sid] \notin Cancelling
          /\ IF stop_todo # {}
             THEN /\ \E sid \in stop_todo :
                        /\ stream_task' = CancelStreams({sid})
                        /\ stop_todo' = stop_todo \ {sid}
                  /\ UNCHANGED <<active_video_streams, stop_pc, ping_task, receive_task,
                                 websocket, handler>>
             ELSE /\ active_video_streams' = {}
                  /\ stop_continue(1)
                  /\ UNCHANGED <<stream_task, stop_todo>>
       \/ /\ stop_pc = "ping"
          /\ stop_continue(2)
          /\ UNCHANGED <<active_video_streams, stream_task, stop_todo>>
       \/ /\ stop_pc = "receive"
          /\ stop_continue(3)
          /\ UNCHANGED <<active_video_streams, stream_task, stop_todo>>
    /\ UNCHANGED <<endpoint, srvVars, codecVars, is_running, reconnect_attempts, client_id,
                   pending_outgoing, sup, delay, shutdown_calls, unsuccessful, cfuture,
                   cpc, cresult, client_outbox, clog, emitted, mediaVars, unlisted_task>>

\* websocket.close() returned (or raised): self.websocket = None, stop returns
StopClosed ==
    /\ endpoint = "client"
    /\ stop_pc = "closing"
    /\ websocket' = NONE
    /\ stop_pc' = "returned"
    /\ UNCHANGED <<endpoint, srvVars, codecVars, is_running, reconnect_attempts, client_id,
                   ping_task, receive_task, pending_outgoing, sup, delay, shutdown_calls,
                   unsuccessful, cfuture, cpc, cresult, client_outbox, clog, stop_todo,
                   active_video_streams, stream_task, unlisted_task, handler, emitted, mediaVars>>

\* ---- NetworkLogic.send_command, one call per command
ClientTimeoutText == "Timeout waiting for server response."
NotOpenText == "WebSocket not connected."

\* what the try/except around wait_for returns, given the awaited future
ClientReturnValue(c, f) ==
    IF f.state = "result" THEN f.value
    ELSE IF f.state = "cancelled" THEN ErrorDict(c, ClientTimeoutText)
    ELSE ErrorDict(c, "Client-side error: " \o f.exc)

\* up to the first await.  A websocket object whose connection is closed
\* has open = False in the legacy websockets API and no such attribute in
\* the new one (getattr default True): both builds are allowed for.
CIssue(legacy) ==
    /\ endpoint = "client"
    /\ \E c \in Calls :
        /\ cpc[c] = "idle"
        /\ \A k \in Calls : k < c => cpc[k] # "idle"
        /\ IF websocket = NONE \/ (websocket = "closed" /\ legacy)
           THEN /\ cresult' = [cresult EXCEPT ![c] =
                       <<[status |-> "error", error_message |-> NotOpenText]>>]
                /\ cpc' = [cpc EXCEPT ![c] = "done"]
                /\ UNCHANGED <<cfuture, pending_outgoing, client_outbox, clog>>
           ELSE /\ cfuture' = [cfuture EXCEPT ![c] = PendingFuture]
                /\ pending_outgoing' = pending_outgoing \cup {c}
                /\ IF websocket = "open"
                   THEN /\ client_outbox' = [type |-> "command", command_id |-> c]
                        /\ UNCHANGED clog
                   ELSE /\ clog' = <<"send_failed", c>>
                        /\ UNCHANGED client_outbox
                /\ cpc' = [cpc EXCEPT ![c] = "sending"]
                /\ UNCHANGED cresult
    /\ UNCHANGED <<endpoint, srvVars, codecVars, stop_pc, stop_todo, active_video_streams, stream_task, unlisted_task,
                   handler, emitted, mediaVars, is_running, reconnect_attempts, websocket,
                   client_id, ping_task, receive_task, sup, delay, shutdown_calls,
                   unsuccessful>>

\* send_json_message returned: wait_for starts
CSendDone(c) ==
    /\ endpoint = "client"
    /\ cpc[c] = "sending"
    /\ cpc' = [cpc EXCEPT ![c] = "waiting"]
    /\ UNCHANGED <<endpoint, srvVars, codecVars, stop_pc, stop_todo, active_video_streams, stream_task, unlisted_task,
                   handler, emitted, mediaVars, is_running, reconnect_attempts, websocket,
                   client_id, ping_task, receive_task, pending_outgoing, sup, delay,
                   shutdown_calls, unsuccessful, cfuture, cresult, client_outbox, clog>>

\* wait_for's timeout expires before the future completes: it cancels it
CTimeout(c) ==
    /\ endpoint = "client"
    /\ cpc[c] = "waiting"
    /\ cfuture[c].state = "pending"
    /\ cfuture' = [cfuture EXCEPT ![c].state = "cancelled"]
    /\ UNCHANGED <<endpoint, srvVars, codecVars, stop_pc, stop_todo, active_video_streams, stream_task, unlisted_task,
                   handler, emitted, mediaVars, is_running, reconnect_attempts, websocket,
                   client_id, ping_task, receive_task, pending_outgoing, sup, delay,
                   shutdown_calls, unsuccessful, cpc, cresult, client_outbox, clog>>

\* a send_command whose finally clause pops nothing
CReturnKeepsEntry(c) ==
    /\ endpoint = "client"
    /\ cpc[c] = "waiting"
    /\ Done(cfuture[c])
    /\ cresult' = [cresult EXCEPT ![c] = Append(@, ClientReturnValue(c, cfuture[c]))]
    /\ clog' = IF cfuture[c].state = "cancelled" THEN <<"timeout", c>>
               ELSE IF cfuture[c].state = "exception" THEN <<"error", c>>
               ELSE clog
    /\ cpc' = [cpc EXCEPT ![c] = "done"]
    /\ UNCHANGED <<endpoint, srvVars, codecVars, stop_pc, stop_todo, active_video_streams, stream_task, unlisted_task,
                   handler, emitted, mediaVars, is_running, reconnect_attempts, websocket,
                   client_id, ping_task, receive_task, sup, delay, shutdown_calls,
                   unsuccessful, cfuture, client_outbox, pending_outgoing>>

\* wait_for returns or raises, the finally clause pops the entry, the call returns
CReturn(c) ==
    /\ endpoint = "client"
    /\ cpc[c] = "waiting"
    /\ Done(cfuture[c])
    /\ cresult' = [cresult EXCEPT ![c] = Append(@, ClientReturnValue(c, cfuture[c]))]
    /\ pending_outgoing' = pending_outgoing \ {c}
    /\ clog' = IF cfuture[c].state = "cancelled" THEN <<"timeout", c>>
               ELSE IF cfuture[c].state = "exception" THEN <<"error", c>>
               ELSE clog
    /\ cpc' = [cpc EXCEPT ![c] = "done"]
    /\ UNCHANGED <<endpoint, srvVars, codecVars, stop_pc, stop_todo, active_video_streams, stream_task, unlisted_task,
                   handler, emitted, mediaVars, is_running, reconnect_attempts, websocket,
                   client_id, ping_task, receive_task, sup, delay, shutdown_calls,
                   unsuccessful, cfuture, client_outbox>>

\* ---- _receive_loop and _handle_server_message
CommandValid(p) == "action" \in DOMAIN p
PongMessageValid(p) == {"timestamp", "server_time"} \subseteq DOMAIN p
MediaAckValid(p) == {"media_type", "sequence"} \subseteq DOMAIN p

\* json.loads, WebSocketMessage(**data_dict) and the typed parse of the loop
\* body: "ok", or the exception its `except` clause logs.  The binary frames
\* of this model are not JSON text.
ClientParseText(m) ==
    IF m.frame = "bytes" \/ m.json = "invalid" THEN "JSONDecodeError"
    ELSE IF m.json = "not_object" THEN "TypeError"
    ELSE IF m.type = ABSENT \/ m.pkind = "not_dict" THEN "ValidationError"
    ELSE IF m.pkind = "dict" /\ m.payload # EmptyDict
              /\ \/ m.type = "command" /\ ~CommandValid(m.payload)
                 \/ m.type = "pong" /\ ~PongMessageValid(m.payload)
                 \/ m.type = "media_ack" /\ ~MediaAckValid(m.payload)
                 \/ m.type = "command_response" /\ ~CommandResponseValid(m.payload)
         THEN "ValidationError"
    ELSE "ok"

\* ---- _execute_command and the action handlers
streamVars == <<active_video_streams, stream_task, handler, emitted>>

StreamStatusMsg(sid, status, reason) ==
    [type |-> "stream_status", stream_id |-> sid, status |-> status, reason |-> reason]
ErrorResponse(id, text) ==
    [type |-> "command_response", command_id |-> id, status |-> "error",
     error_message |-> text]
SuccessResponse(id, text) ==
    [type |-> "command_response", command_id |-> id, status |-> "success", data |-> text]

\* an answer that does not echo the id of the command
UnknownActionResponseNoId(p) == ErrorResponse(BogusId, "Unknown action: " \o p.action)

\* the answer for an action without an _action_ handler
UnknownActionResponse(p) == ErrorResponse(p.command_id, "Unknown action: " \o p.action)

\* the answer of the `except Exception` clause around the handler
ExecutionErrorResponse(p) == ErrorResponse(p.command_id, "Client execution error: e")

\* `cmd.params or {}`
Params(p) == IF "params" \in DOMAIN p THEN p.params ELSE EmptyDict

\* the actions whose handler hands work to a device through run_in_executor
DeviceActions == {"speak_text", "capture_image"}
HandledActions == DeviceActions \cup {"start_video_stream", "stop_video_stream"}

\* the handler the receive loop is suspended in
Awaiting(p, sid) ==
    [command_id |-> p.command_id, action |-> p.action, stream_id |-> sid, sequence |-> 0]

\* a start that registers a second task under an id that has one
action_start_video_stream_twice(p) ==
    LET sid == Params(p).stream_id IN
    IF sid = <<>>
    THEN /\ client_outbox' = ErrorResponse(p.command_id,
                "Invalid stream_id provided. Must be a non-empty string.")
         /\ clog' = <<"invalid_stream_id", p.command_id>>
         /\ UNCHANGED <<streamVars, stop_todo, unlisted_task>>
    ELSE /\ stream_task' = [stream_task EXCEPT ![sid] = "created"]
         /\ unlisted_task' = [unlisted_task EXCEPT ![sid] =
                                  IF stream_task[sid] \in Running THEN stream_task[sid]
                                  ELSE @]
         /\ active_video_streams' = active_video_streams \cup {sid}
         /\ emitted' = [emitted EXCEPT ![sid] = NoneEmitted]
         /\ stop_todo' = stop_todo \ {sid}
         /\ client_outbox' = SuccessResponse(p.command_id, "Video stream initiated.")
         /\ UNCHANGED <<clog, handler>>

\* _action_start_video_stream for a command that names its stream; the
\* stream id "" is the empty sequence.  The task stop() had listed under
\* this id has ended, so cancelling it changes nothing any more
action_start_video_stream(p) ==
    LET sid == Params(p).stream_id IN
    IF sid = <<>> \/ sid \in active_video_streams
    THEN /\ client_outbox' = ErrorResponse(p.command_id,
                IF sid = <<>> THEN "Invalid stream_id provided. Must be a non-empty string."
                ELSE "Stream already active.")
         /\ clog' = IF sid = <<>> THEN <<"invalid_stream_id", p.command_id>> ELSE clog
         /\ UNCHANGED <<streamVars, stop_todo, unlisted_task>>
    ELSE /\ stream_task' = [stream_task EXCEPT ![sid] = "created"]
         /\ unlisted_task' = [unlisted_task EXCEPT ![sid] =
                                  IF stream_task[sid] \in Running THEN stream_task[sid]
                                  ELSE @]
         /\ active_video_streams' = active_video_streams \cup {sid}
         /\ emitted' = [emitted EXCEPT ![sid] = NoneEmitted]
         /\ stop_todo' = stop_todo \ {sid}
         /\ client_outbox' = SuccessResponse(p.command_id, "Video stream initiated.")
         /\ UNCHANGED <<clog, handler>>

\* a stop that cancels every task of the table
action_stop_video_stream_all(p) ==
    LET given == "stream_id" \in DOMAIN Params(p)
        sid == Params(p).stream_id
    IN
    IF given /\ sid \in active_video_streams
    THEN /\ active_video_streams' = {}
         /\ stream_task' = CancelStreams(active_video_streams)
         /\ handler' = Awaiting(p, sid)
         /\ UNCHANGED <<client_outbox, clog, emitted>>
    ELSE /\ client_outbox' = ErrorResponse(p.command_id,
                IF ~given THEN "Invalid stop_video_stream parameters"
                ELSE "Stream not found or not active.")
         /\ clog' = <<IF ~given THEN "invalid_stop_params" ELSE "stream_not_found",
                      p.command_id>>
         /\ UNCHANGED streamVars

\* _action_stop_video_stream up to `await asyncio.wait_for(task, ...)`
action_stop_video_stream(p) ==
    LET given == "stream_id" \in DOMAIN Params(p)
        sid == Params(p).stream_id
    IN
    IF given /\ sid \in active_video_streams
    THEN /\ active_video_streams' = active_video_streams \ {sid}
         /\ stream_task' = CancelStreams({sid})
         /\ handler' = Awaiting(p, sid)
         /\ UNCHANGED <<client_outbox, clog, emitted>>
    ELSE /\ client_outbox' = ErrorResponse(p.command_id,
                IF ~given THEN "Invalid stop_video_stream parameters"
                ELSE "Stream not found or not active.")
         /\ clog' = <<IF ~given THEN "invalid_stop_params" ELSE "stream_not_found",
                      p.command_id>>
         /\ UNCHANGED streamVars

\* _action_speak_text and _action_capture_image up to their
\* `await loop.run_in_executor(...)`: speak_text without a text answers at once
action_device(p) ==
    /\ IF p.action = "speak_text" /\ "text" \notin DOMAIN Params(p)
       THEN /\ client_outbox' = ErrorResponse(p.command_id, "No text provided.")
            /\ UNCHANGED <<clog, handler>>
       ELSE /\ handler' = Awaiting(p, <<>>)
            /\ clog' = <<"executing", p.command_id>>
            /\ UNCHANGED client_outbox
    /\ UNCHANGED <<active_video_streams, stream_task, unlisted_task, emitted>>

execute_command(p) ==
    IF p.action \notin HandledActions
    THEN /\ clog' = <<"unknown_action", p.command_id>>
         /\ client_outbox' = UnknownActionResponse(p)
         /\ UNCHANGED <<streamVars, stop_todo, unlisted_task>>
    ELSE IF p.action = "start_video_stream" THEN action_start_video_stream(p)
    ELSE IF p.action = "stop_video_stream"
    THEN action_stop_video_stream(p) /\ UNCHANGED <<stop_todo, unlisted_task>>
    ELSE action_device(p) /\ UNCHANGED <<stop_todo, unlisted_task>>

handle_server_message(m) ==
    IF m.type = "command"
    THEN /\ IF Typed(m) THEN execute_command(m.payload)
            ELSE /\ clog' = <<"command_without_payload", 0>>
                 /\ UNCHANGED <<client_outbox, streamVars, stop_todo, unlisted_task>>
         /\ UNCHANGED cfuture
    ELSE IF m.type \in {"pong", "media_ack"}
    THEN /\ clog' = IF Typed(m) THEN clog ELSE <<"malformed_" \o m.type, 0>>
         /\ UNCHANGED <<cfuture, client_outbox, streamVars, stop_todo, unlisted_task>>
    ELSE IF m.type = "command_response"
    THEN /\ IF ~Typed(m)
            THEN /\ clog' = <<"malformed_command_response", 0>>
                 /\ UNCHANGED cfuture
            ELSE LET c == m.payload.command_id IN
                 IF c \in pending_outgoing /\ ~Done(cfuture[c])
                 THEN /\ cfuture' = [cfuture EXCEPT ![c] =
                              [state |-> "result", value |-> m.payload, exc |-> NONE]]
                      /\ UNCHANGED clog
                 ELSE IF c \in pending_outgoing
                 THEN /\ clog' = <<"already_done", c>>
                      /\ UNCHANGED cfuture
                 ELSE /\ clog' = <<"unknown_cmd", c>>
                      /\ UNCHANGED cfuture
         /\ UNCHANGED <<client_outbox, streamVars, stop_todo, unlisted_task>>
    ELSE /\ clog' = <<"unhandled_type", 0>>
         /\ UNCHANGED <<cfuture, client_outbox, streamVars, stop_todo, unlisted_task>>

\* what a turn of the receive loop and the handlers it awaits leave alone
Receive_unchanged ==
    UNCHANGED <<endpoint, srvVars, codecVars, stop_pc, is_running, reconnect_attempts,
                websocket, client_id, ping_task, receive_task, pending_outgoing, sup,
                delay, shutdown_calls, unsuccessful, cpc, cresult>>

\* a receive loop that takes the next message while a handler is under way
ClientReceiveEarly(m) ==
    /\ endpoint = "client"
    /\ sup = "active" /\ receive_task = "running" /\ websocket = "open"
    /\ IF ClientParseText(m) = "ok" THEN handle_server_message(m)
       ELSE /\ clog' = <<"processing_error", 0>>
            /\ UNCHANGED <<cfuture, client_outbox, streamVars, stop_todo, unlisted_task>>
    /\ UNCHANGED mediaVars
    /\ Receive_unchanged

\* one turn of `async for message_str in self.websocket`; the loop takes no
\* message while it awaits a handler
ClientReceive(m) ==
    /\ endpoint = "client"
    /\ sup = "active" /\ receive_task = "running" /\ websocket = "open"
    /\ handler = NoHandler
    /\ IF ClientParseText(m) = "ok" THEN handle_server_message(m)
       ELSE /\ clog' = <<"processing_error", 0>>
            /\ UNCHANGED <<cfuture, client_outbox, streamVars, stop_todo, unlisted_task>>
    /\ UNCHANGED mediaVars
    /\ Receive_unchanged

\* the cancelled stream task has finished: _action_stop_video_stream sends
\* the terminal status, then its answer, and returns to the receive loop
StopStreamDone ==
    /\ endpoint = "client"
    /\ handler.action = "stop_video_stream"
    /\ stream_task[handler.stream_id] \notin Cancelling
    /\ IF websocket = "open"
       THEN /\ emitted' = [emitted EXCEPT ![handler.stream_id].terminal = @ + 1]
            /\ client_outbox' = SuccessResponse(handler.command_id,
                                                "Video stream stopped successfully")
            /\ UNCHANGED clog
       ELSE /\ clog' = <<"send_failed", handler.command_id>>
            /\ UNCHANGED <<emitted, client_outbox>>
    /\ handler' = NoHandler
    /\ UNCHANGED <<cfuture, active_video_streams, stream_task, unlisted_task, stop_todo, mediaVars>>
    /\ Receive_unchanged

MaxFrames == 2      \* binary frames a client sends

\* a binary frame as send_binary_message hands it to the websocket
BinaryFrame(prefix, sequence, sid) ==
    [prefix |-> prefix, sequence |-> sequence, stream_id |-> sid]

\* a device action whose exception is swallowed without an answer
DeviceActionDoneUnanswered ==
    /\ endpoint = "client"
    /\ handler.action \in DeviceActions
    /\ \E outcome \in {"success", "error", "raised"} :
          LET image == outcome = "success" /\ handler.action = "capture_image"
              answer ==
                  IF image THEN SuccessResponse(handler.command_id,
                                    "Image captured. Sending binary data.")
                  ELSE IF outcome = "success"
                  THEN SuccessResponse(handler.command_id, "done")
                  ELSE ErrorResponse(handler.command_id, "Client error: e")
          IN /\ image => media_sequence_counter < MaxFrames
             /\ media_sequence_counter' = media_sequence_counter + (IF image THEN 1 ELSE 0)
             /\ handler' = IF image
                           THEN [handler EXCEPT !.action = "send_image",
                                                !.sequence = media_sequence_counter + 1]
                           ELSE NoHandler
             /\ client_outbox' = IF websocket = "open" /\ outcome # "raised"
                                 THEN answer ELSE client_outbox
             /\ clog' = IF websocket # "open" THEN <<"send_failed", handler.command_id>>
                        ELSE IF outcome = "raised"
                        THEN <<"handler_error", handler.command_id>>
                        ELSE clog
    /\ UNCHANGED <<cfuture, active_video_streams, stream_task, unlisted_task, emitted, stop_todo,
                   binary_sent>>
    /\ Receive_unchanged

\* the executor returned to a device action: speak_text answers; capture_image
\* takes the next sequence number and answers, its image still to be sent
DeviceActionDone ==
    /\ endpoint = "client"
    /\ handler.action \in DeviceActions
    /\ \E outcome \in {"success", "error", "raised"} :
          LET image == outcome = "success" /\ handler.action = "capture_image"
              answer ==
                  IF image THEN SuccessResponse(handler.command_id,
                                    "Image captured. Sending binary data.")
                  ELSE IF outcome = "success"
                  THEN SuccessResponse(handler.command_id, "done")
                  ELSE IF outcome = "error"
                  THEN ErrorResponse(handler.command_id, "Client error: e")
                  ELSE ExecutionErrorResponse(handler)
          IN /\ image => media_sequence_counter < MaxFrames
             /\ media_sequence_counter' = media_sequence_counter + (IF image THEN 1 ELSE 0)
             /\ handler' = IF image
                           THEN [handler EXCEPT !.action = "send_image",
                                                !.sequence = media_sequence_counter + 1]
                           ELSE NoHandler
             /\ client_outbox' = IF websocket = "open" THEN answer ELSE client_outbox
             /\ clog' = IF websocket # "open" THEN <<"send_failed", handler.command_id>>
                        ELSE IF outcome = "raised"
                        THEN <<"handler_error", handler.command_id>>
                        ELSE clog
    /\ UNCHANGED <<cfuture, active_video_streams, stream_task, unlisted_task, emitted, stop_todo,
                   binary_sent>>
    /\ Receive_unchanged

\* the answer of capture_image is out: the image follows as an IMG: frame
\* that names no stream
ImageSent ==
    /\ endpoint = "client"
    /\ handler.action = "send_image"
    /\ binary_sent' = IF websocket = "open"
                      THEN Append(binary_sent, BinaryFrame("IMG:", handler.sequence, <<>>))
                      ELSE binary_sent
    /\ handler' = NoHandler
    /\ UNCHANGED <<cfuture, active_video_streams, stream_task, unlisted_task, emitted, stop_todo,
                   media_sequence_counter, client_outbox, clog>>
    /\ Receive_unchanged

\* ---- _video_stream_loop, the task of the stream `sid`

\* what every step of a stream task leaves alone
StreamFrame_unchanged ==
    UNCHANGED <<endpoint, srvVars, codecVars, stop_pc, stop_todo, is_running,
                reconnect_attempts, websocket, client_id, ping_task, receive_task,
                pending_outgoing, sup, delay, shutdown_calls, unsuccessful, cfuture, cpc,
                cresult, handler, unlisted_task>>

\* the task ends: the entry of `sid`, if there is one, is popped
Finished(sid) ==
    /\ stream_task' = [stream_task EXCEPT ![sid] = "finished"]
    /\ active_video_streams' = active_video_streams \ {sid}

\* the camera opens: 'started' is sent if the websocket is there.  A closed
\* websocket has open = False in the legacy websockets API and no such
\* attribute in the new one (getattr default True)
StreamOpens(sid, legacy) ==
    /\ endpoint = "client"
    /\ stream_task[sid] = "created"
    /\ IF websocket = "open"
       THEN /\ emitted' = [emitted EXCEPT ![sid].started = @ + 1]
            /\ client_outbox' = StreamStatusMsg(sid, "started", NONE)
            /\ stream_task' = [stream_task EXCEPT ![sid] = "streaming"]
            /\ UNCHANGED active_video_streams
       ELSE IF websocket = "closed" /\ ~legacy
       THEN /\ stream_task' = [stream_task EXCEPT ![sid] = "streaming"]
            /\ UNCHANGED <<emitted, client_outbox, active_video_streams>>
       ELSE /\ Finished(sid)
            /\ UNCHANGED <<emitted, client_outbox>>
    /\ UNCHANGED <<clog, mediaVars>>
    /\ StreamFrame_unchanged

\* cap.isOpened() is false: 'error_on_client' is handed to the websocket and
\* the task waits for the send; without a websocket it returns at once
StreamCannotOpen(sid) ==
    /\ endpoint = "client"
    /\ stream_task[sid] = "created"
    /\ IF websocket = "open"
       THEN /\ emitted' = [emitted EXCEPT ![sid].terminal = @ + 1, ![sid].failed = TRUE]
            /\ client_outbox' = StreamStatusMsg(sid, "error_on_client", "Cannot open camera.")
            /\ stream_task' = [stream_task EXCEPT ![sid] = "unopened"]
            /\ UNCHANGED active_video_streams
       ELSE /\ emitted' = [emitted EXCEPT ![sid].failed = TRUE]
            /\ Finished(sid)
            /\ UNCHANGED client_outbox
    /\ UNCHANGED <<clog, mediaVars>>
    /\ StreamFrame_unchanged

\* a finally clause that leaves the entry of the stream in place
StreamUnopenedKept(sid) ==
    /\ endpoint = "client"
    /\ stream_task[sid] = "unopened"
    /\ stream_task' = [stream_task EXCEPT ![sid] = "finished"]
    /\ UNCHANGED <<emitted, client_outbox, active_video_streams, clog, mediaVars>>
    /\ StreamFrame_unchanged

\* the send returned and so does the task: its flag is still set, and the
\* finally clause pops the entry and sends 'stopped_by_client' as well
StreamUnopenedDone(sid) ==
    /\ endpoint = "client"
    /\ stream_task[sid] = "unopened"
    /\ IF websocket = "open"
       THEN /\ emitted' = [emitted EXCEPT ![sid].terminal = @ + 1]
            /\ client_outbox' = StreamStatusMsg(sid, "stopped_by_client",
                                    "Stream loop ended unexpectedly on client.")
       ELSE UNCHANGED <<emitted, client_outbox>>
    /\ Finished(sid)
    /\ UNCHANGED <<clog, mediaVars>>
    /\ StreamFrame_unchanged

\* the tests at the head of the loop body
StreamGoesOn(sid, legacy) ==
    /\ is_running
    /\ sid \in active_video_streams
    /\ websocket = "open" \/ (websocket = "closed" /\ ~legacy)

\* a loop that numbers its frame without advancing the shared counter
StreamFrameCounterKept(sid, legacy) ==
    /\ endpoint = "client"
    /\ stream_task[sid] = "streaming" /\ StreamGoesOn(sid, legacy)
    /\ media_sequence_counter < MaxFrames
    /\ media_sequence_counter' = media_sequence_counter
    /\ IF websocket = "open"
       THEN /\ emitted' = [emitted EXCEPT ![sid].frames = @ + 1]
            /\ binary_sent' = Append(binary_sent,
                                  BinaryFrame("VID:", media_sequence_counter + 1, sid))
       ELSE UNCHANGED <<emitted, binary_sent>>
    /\ UNCHANGED <<client_outbox, stream_task, unlisted_task, active_video_streams, clog>>
    /\ StreamFrame_unchanged

\* one frame: captured, encoded, given the next sequence number and handed
\* to send_binary_message, which sends it if the websocket is there
StreamFrame(sid, legacy) ==
    /\ endpoint = "client"
    /\ stream_task[sid] = "streaming" /\ StreamGoesOn(sid, legacy)
    /\ media_sequence_counter < MaxFrames
    /\ media_sequence_counter' = media_sequence_counter + 1
    /\ IF websocket = "open"
       THEN /\ emitted' = [emitted EXCEPT ![sid].frames = @ + 1]
            /\ binary_sent' = Append(binary_sent,
                                  BinaryFrame("VID:", media_sequence_counter + 1, sid))
       ELSE UNCHANGED <<emitted, binary_sent>>
    /\ UNCHANGED <<client_outbox, stream_task, unlisted_task, active_video_streams, clog>>
    /\ StreamFrame_unchanged

\* cap.read() returns no frame, or cv2.imencode no result: the failure is
\* logged and the loop goes on to its next turn
StreamFrameFails(sid, legacy) ==
    /\ endpoint = "client"
    /\ stream_task[sid] = "streaming" /\ StreamGoesOn(sid, legacy)
    /\ \E what \in {"failed_to_grab_frame", "failed_to_encode_frame"} :
          clog' = <<what, 0>>
    /\ UNCHANGED <<emitted, client_outbox, stream_task, unlisted_task, active_video_streams, mediaVars>>
    /\ StreamFrame_unchanged

\* the loop ends by its own tests: with is_running false the flag is still
\* set and the finally clause sends 'stopped_by_client'
StreamLoopExit(sid, legacy) ==
    /\ endpoint = "client"
    /\ stream_task[sid] = "streaming" /\ ~StreamGoesOn(sid, legacy)
    /\ IF ~is_running /\ websocket = "open"
       THEN /\ emitted' = [emitted EXCEPT ![sid].terminal = @ + 1]
            /\ client_outbox' = StreamStatusMsg(sid, "stopped_by_client",
                                    "Stream loop ended unexpectedly on client.")
       ELSE UNCHANGED <<emitted, client_outbox>>
    /\ Finished(sid)
    /\ UNCHANGED <<clog, mediaVars>>
    /\ StreamFrame_unchanged

\* an exception in the loop: 'error_on_client' is handed to the websocket
\* and the task waits for the send
StreamFails(sid) ==
    /\ endpoint = "client"
    /\ stream_task[sid] = "streaming"
    /\ IF websocket = "open"
       THEN /\ emitted' = [emitted EXCEPT ![sid].terminal = @ + 1, ![sid].failed = TRUE]
            /\ client_outbox' = StreamStatusMsg(sid, "error_on_client", "Runtime error: e")
            /\ stream_task' = [stream_task EXCEPT ![sid] = "failing"]
            /\ UNCHANGED active_video_streams
       ELSE /\ emitted' = [emitted EXCEPT ![sid].failed = TRUE]
            /\ Finished(sid)
            /\ UNCHANGED client_outbox
    /\ UNCHANGED <<clog, mediaVars>>
    /\ StreamFrame_unchanged

\* the send returned: flag cleared, finally clause
StreamFailDone(sid) ==
    /\ endpoint = "client"
    /\ stream_task[sid] = "failing"
    /\ Finished(sid)
    /\ UNCHANGED <<emitted, client_outbox, clog, mediaVars>>
    /\ StreamFrame_unchanged

\* a task whose CancelledError clause leaves the flag set
StreamCancelledFlagSet(sid) ==
    /\ endpoint = "client"
    /\ stream_task[sid] \in Cancelling
    /\ IF stream_task[sid] # "cancelling_new" /\ websocket = "open"
       THEN /\ emitted' = [emitted EXCEPT ![sid].terminal = @ + 1]
            /\ client_outbox' = StreamStatusMsg(sid, "stopped_by_client",
                                    "Stream loop ended unexpectedly on client.")
       ELSE UNCHANGED <<emitted, client_outbox>>
    /\ active_video_streams' = IF stream_task[sid] = "cancelling_new"
                               THEN active_video_streams
                               ELSE active_video_streams \ {sid}
    /\ stream_task' = [stream_task EXCEPT ![sid] = "finished"]
    /\ UNCHANGED <<clog, mediaVars>>
    /\ StreamFrame_unchanged

\* the CancelledError reaches the task: a task that never ran just ends; in
\* the loop the flag is cleared; in the except clause it is not, and the
\* finally clause sends 'stopped_by_client'
StreamCancelled(sid) ==
    /\ endpoint = "client"
    /\ stream_task[sid] \in Cancelling
    /\ IF stream_task[sid] = "cancelling_failed" /\ websocket = "open"
       THEN /\ emitted' = [emitted EXCEPT ![sid].terminal = @ + 1]
            /\ client_outbox' = StreamStatusMsg(sid, "stopped_by_client",
                                    "Stream loop ended unexpectedly on client.")
       ELSE UNCHANGED <<emitted, client_outbox>>
    /\ active_video_streams' = IF stream_task[sid] = "cancelling_new"
                               THEN active_video_streams
                               ELSE active_video_streams \ {sid}
    /\ stream_task' = [stream_task EXCEPT ![sid] = "finished"]
    /\ UNCHANGED <<clog, mediaVars>>
    /\ StreamFrame_unchanged

\* an earlier task of the id `sid`, which stop() dropped from the table
\* without cancelling it, runs to its end: with is_running false it enters no
\* frame loop, and its finally clause pops whatever entry the id has now and,
\* the flag set, sends 'stopped_by_client'
UnlistedTaskEnds(sid) ==
    /\ endpoint = "client"
    /\ unlisted_task[sid] \in Running \ Cancelling
    /\ ~is_running
    /\ unlisted_task' = [unlisted_task EXCEPT ![sid] = "finished"]
    /\ active_video_streams' = active_video_streams \ {sid}
    /\ client_outbox' = IF unlisted_task[sid] # "failing" /\ websocket = "open"
                        THEN StreamStatusMsg(sid, "stopped_by_client",
                                 "Stream loop ended unexpectedly on client.")
                        ELSE client_outbox
    /\ UNCHANGED <<endpoint, srvVars, codecVars, stop_pc, stop_todo, is_running,
                   reconnect_attempts, websocket, client_id, ping_task, receive_task,
                   pending_outgoing, sup, delay, shutdown_calls, unsuccessful, cfuture, cpc,
                   cresult, handler, stream_task, emitted, clog, mediaVars>>

InitClient ==
    /\ is_running = FALSE
    /\ reconnect_attempts = 0
    /\ websocket = NONE
    /\ client_id = NoClientId
    /\ ping_task = NONE
    /\ receive_task = NONE
    /\ pending_outgoing = {}
    /\ sup = "init"
    /\ delay = 0
    /\ shutdown_calls = 0
    /\ unsuccessful = 0
    /\ cfuture = [c \in Calls |-> NoFuture]
    /\ cpc = [c \in Calls |-> "idle"]
    /\ cresult = [c \in Calls |-> <<>>]
    /\ client_outbox = [type |-> NONE]
    /\ clog = <<NONE, 0>>
    /\ stop_pc = "idle"
    /\ stop_todo = {}
    /\ active_video_streams = {}
    /\ stream_task = [sid \in StreamIds |-> NONE]
    /\ unlisted_task = [sid \in StreamIds |-> NONE]
    /\ handler = NoHandler
    /\ emitted = [sid \in StreamIds |-> NoneEmitted]
    /\ media_sequence_counter = 0
    /\ binary_sent = <<>>


\* ---- frames a server may put on the wire
CIssuedIds == {c \in Calls : cpc[c] # "idle"} \cup {BogusId}

ResponsesFromServer ==
    {TextFrame("object", "command_response", "dict", p) :
        p \in CommandResponsePayloads(CIssuedIds)}

FramesFromServer ==
    UndecodableFrames \cup UnknownTypeFrames \cup ResponsesFromServer
    \cup {TextFrame("object", "pong", "dict", [timestamp |-> 1, server_time |-> 2]),
          TextFrame("object", "media_ack", "dict", [media_type |-> "image", sequence |-> 1]),
          TextFrame("object", "command", "dict", [command_id |-> 1, action |-> "x"]),
          TextFrame("object", "command", "dict", EmptyDict)}

\* ============================================== binary frame, end to end
MaxIdLen == 2        \* characters of a stream id
MaxPayloadLen == 2   \* bytes of media payload

SeqsUpTo(S, n) == UNION {[1..k -> S] : k \in 0..n}

\* U+0000, "1" and "e" with acute accent (two bytes in UTF-8)
StreamIdStrings == {NoStreamId} \cup SeqsUpTo({0, 49, 233}, MaxIdLen)
Sequences32 == {-1, 0, 1, 256, 2147483647}
FrameArgs ==
    [prefix : {IMG, VID}, sequence : Sequences32,
     stream_id_str : StreamIdStrings, data : SeqsUpTo({0, 7}, MaxPayloadLen)]

NoFrameArgs == [prefix |-> IMG, sequence |-> 0, stream_id_str |-> NoStreamId, data |-> <<>>]

\* send_binary_message(prefix, sequence, stream_id_str, data) on an open
\* websocket; to_bytes raises OverflowError, which is logged, outside
\* 0 .. 2^32-1 (the model's integers end at 2^31-1)
SendBinary ==
    /\ endpoint = "codec"
    /\ websocket = "open" /\ wire = <<>> /\ clog[1] # "send_binary_error"
    /\ IF frame_args.sequence >= 0
       THEN /\ wire' = EncodeFrame(frame_args.prefix, frame_args.sequence,
                                   frame_args.stream_id_str, frame_args.data)
            /\ UNCHANGED clog
       ELSE /\ clog' = <<"send_binary_error", 0>>
            /\ UNCHANGED wire
    /\ UNCHANGED <<endpoint, srvVars, frame_args, frame_seen, is_running,
                   reconnect_attempts, websocket, client_id, ping_task, receive_task,
                   pending_outgoing, sup, delay, shutdown_calls, unsuccessful,
                   cfuture, cpc, cresult, client_outbox, stop_pc, stop_todo,
                   active_video_streams, stream_task, unlisted_task, handler, emitted, mediaVars>>

\* the server's loop hands the bytes to handle_client_binary_message
DeliverFrame ==
    /\ endpoint = "codec"
    /\ wire # <<>> /\ frame_seen = <<>>
    /\ frame_seen' = <<DecodeFrame(wire)>>
    /\ UNCHANGED <<endpoint, srvVars, cliVars, frame_args, wire>>

\* ======================================================== specifications
ServerCore ==
    \/ \E cl \in Conns : Accept(cl)
    \/ \E cl \in Conns : \E m \in FirstMessages : RegisterOk(cl, m)
    \/ \E cl \in Conns : Disconnected(cl)
    \/ \E cl \in Conns : Issue(cl)
    \/ \E c \in Cmds : SendDone(c)
    \/ \E c \in Cmds : Timeout(c)
    \/ \E c \in Cmds : Return(c)

ResponsesFromClient ==
    {TextFrame("object", "command_response", "dict", p) :
        p \in CommandResponsePayloads(IssuedIds)}

ClientCore ==
    \/ Start
    \/ ConnectFails
    \/ ConnectOk
    \/ \E id \in Conns : RegistrationOk(id)
    \/ RegistrationFails
    \/ ReceiveLoopEnds
    \/ PingLoopEnds
    \/ SessionEnd
    \/ Wake

ClientCalls ==
    \/ \E legacy \in BOOLEAN : CIssue(legacy)
    \/ \E c \in Calls : CSendDone(c)
    \/ \E c \in Calls : CTimeout(c)
    \/ \E c \in Calls : CReturn(c)

IdleCodec == frame_args = NoFrameArgs /\ wire = <<>> /\ frame_seen = <<>>

\* a client in an Active session, as Start, ConnectOk, RegistrationOk leave it
ActiveClient ==
    /\ is_running = TRUE
    /\ reconnect_attempts = 0
    /\ websocket = "open"
    /\ client_id = 1
    /\ ping_task = "running"
    /\ receive_task = "running"
    /\ pending_outgoing = {}
    /\ sup = "active"
    /\ delay = 0
    /\ shutdown_calls = 0
    /\ unsuccessful = 0
    /\ cfuture = [c \in Calls |-> NoFuture]
    /\ cpc = [c \in Calls |-> "idle"]
    /\ cresult = [c \in Calls |-> <<>>]
    /\ client_outbox = [type |-> "register"]
    /\ clog = <<NONE, 0>>
    /\ stop_pc = "idle"
    /\ stop_todo = {}
    /\ active_video_streams = {}
    /\ stream_task = [sid \in StreamIds |-> NONE]
    /\ unlisted_task = [sid \in StreamIds |-> NONE]
    /\ handler = NoHandler
    /\ emitted = [sid \in StreamIds |-> NoneEmitted]
    /\ media_sequence_counter = 0
    /\ binary_sent = <<>>

\* either endpoint, facing an arbitrary peer
InitEndpoints ==
    /\ endpoint \in {"server", "client"}
    /\ InitServer /\ InitClient /\ IdleCodec

\* commands and their answers
NextCommands ==
    \/ ServerCore
    \/ \E cl \in Conns : \E m \in ResponsesFromClient : Receive(cl, m)
    \/ ClientCore
    \/ ClientCalls
    \/ \E m \in ResponsesFromServer : ClientReceive(m)

SpecCommands == InitEndpoints /\ [][NextCommands]_vars

\* commands on clients that never answer, an operator who may shut the
\* server down
InitShutdown == endpoint = "server" /\ InitServer /\ InitClient /\ IdleCodec
NextShutdown ==
    \/ ServerCore
    \/ ShutdownBegin
    \/ ShutdownClose
    \/ ShutdownDisconnect

SpecShutdown == InitShutdown /\ [][NextShutdown]_vars

\* every kind of frame, well-formed or not, while commands are pending
NextFrames ==
    \/ \E cl \in Conns : Accept(cl)
    \/ \E cl \in Conns : \E m \in FirstMessages : RegisterOk(cl, m)
    \/ \E cl \in Conns : Disconnected(cl)
    \/ \E cl \in Conns : Issue(cl)
    \/ \E cl \in Conns : \E m \in FramesFromClient : Receive(cl, m)
    \/ ClientCore
    \/ \E legacy \in BOOLEAN : CIssue(legacy)
    \/ \E c \in Calls : CSendDone(c)
    \/ \E m \in FramesFromServer : ClientReceive(m)

SpecFrames == InitEndpoints /\ [][NextFrames]_vars

\* the reconnection supervisor alone
InitSupervisor == endpoint = "client" /\ InitServer /\ InitClient /\ IdleCodec
NextSupervisor == ClientCore
SpecSupervisor == InitSupervisor /\ [][NextSupervisor]_vars

\* unified_loop: connect_and_run(startup_only=True) runs to its return, then
\* the send_command calls of the prompt loop
NextStartup ==
    \/ Start
    \/ ConnectFails
    \/ ConnectOk
    \/ RegistrationFails
    \/ Wake
    \/ \E id \in Conns : StartupOnlyRegistered(id)
    \/ StartupOnlyExit
    \/ StartupOnlyReturn
    \/ sup = "returned" /\ \E legacy \in BOOLEAN : CIssue(legacy)
SpecStartup == InitSupervisor /\ [][NextStartup]_vars

\* registration with every kind of first message, on both sides, and
\* commands for clients in and out of the registry
NextRegistration ==
    \/ \E cl \in Conns : Accept(cl)
    \/ \E cl \in Conns : \E m \in FirstMessages : RegisterOk(cl, m)
    \/ \E cl \in Conns : \E m \in FirstMessages : RegisterFail(cl, m)
    \/ \E cl \in Conns : Disconnected(cl)
    \/ \E cl \in Conns : Issue(cl)
    \/ \E c \in Cmds : SendDone(c)
    \/ ClientCore

SpecRegistration == InitEndpoints /\ [][NextRegistration]_vars

\* commands issued over HTTP, answered with every kind of error text
HttpResponsePayloads(ids) ==
    CommandResponsePayloads(ids)
    \cup {[command_id |-> c, status |-> "error"] : c \in ids}
    \cup {[command_id |-> c, status |-> "error",
           error_message |-> "Client error: Timeout opening camera"] : c \in ids}

NextHttp ==
    \/ \E cl \in Conns : Accept(cl)
    \/ \E cl \in Conns : \E m \in FirstMessages : RegisterOk(cl, m)
    \/ \E cl \in Conns : Disconnected(cl)
    \/ \E cl \in Conns : Issue(cl)
    \/ \E c \in Cmds : SendDone(c)
    \/ \E c \in Cmds : Timeout(c)
    \/ \E c \in Cmds : Return(c)
    \/ \E cl \in Conns : \E p \in HttpResponsePayloads(IssuedIds) :
          Receive(cl, TextFrame("object", "command_response", "dict", p))

SpecHttp == InitShutdown /\ [][NextHttp]_vars

\* the supervisor and a stop request
ClientStop ==
    \/ StopBegin
    \/ StopResume
    \/ StopClosed

NextStop == ClientCore \/ ClientStop
SpecStop == InitSupervisor /\ [][NextStop]_vars

\* commands executed on the client, a video stream among them
StreamCommands ==
    {[command_id |-> c, action |-> "x"] : c \in Cmds}
    \cup {[command_id |-> c, action |-> "speak_text", params |-> [text |-> "hi"]] :
             c \in Cmds}
    \cup {[command_id |-> c, action |-> a, params |-> [stream_id |-> S1]] :
             c \in Cmds, a \in {"start_video_stream", "stop_video_stream"}}
    \cup {[command_id |-> c, action |-> "start_video_stream",
           params |-> [stream_id |-> <<>>]] : c \in Cmds}
    \cup {[command_id |-> c, action |-> "stop_video_stream"] : c \in Cmds}

\* the steps of the stream tasks
StreamSteps ==
    \E sid \in StreamIds :
       \/ \E legacy \in BOOLEAN : StreamOpens(sid, legacy)
       \/ StreamCannotOpen(sid)
       \/ StreamUnopenedDone(sid)
       \/ \E legacy \in BOOLEAN : StreamFrame(sid, legacy)
       \/ \E legacy \in BOOLEAN : StreamFrameFails(sid, legacy)
       \/ \E legacy \in BOOLEAN : StreamLoopExit(sid, legacy)
       \/ StreamFails(sid)
       \/ StreamFailDone(sid)
       \/ StreamCancelled(sid)

NextStreams ==
    \/ Start
    \/ ConnectOk
    \/ \E id \in Conns : RegistrationOk(id)
    \/ ReceiveLoopEnds
    \/ PingLoopEnds
    \/ SessionEnd
    \/ \E p \in StreamCommands : ClientReceive(TextFrame("object", "command", "dict", p))
    \/ StopStreamDone
    \/ DeviceActionDone
    \/ StreamSteps

SpecStreams == InitSupervisor /\ [][NextStreams]_vars

\* a stop request while a stream is open and start commands keep arriving
RestartCommands ==
    {[command_id |-> 1, action |-> "start_video_stream", params |-> [stream_id |-> S1]]}

NextStopStreams ==
    \/ Start
    \/ ConnectOk
    \/ \E id \in Conns : RegistrationOk(id)
    \/ SessionEnd
    \/ ClientStop
    \/ \E p \in RestartCommands : ClientReceive(TextFrame("object", "command", "dict", p))
    \/ \E legacy \in BOOLEAN : StreamOpens(S1, legacy)
    \/ StreamCannotOpen(S1)
    \/ StreamUnopenedDone(S1)
    \/ \E legacy \in BOOLEAN : StreamLoopExit(S1, legacy)
    \/ StreamCancelled(S1)
    \/ UnlistedTaskEnds(S1)

SpecStopStreams == InitSupervisor /\ [][NextStopStreams]_vars

\* sessions with two streams that end and are followed by a reconnect
SessionCommands ==
    {[command_id |-> 1, action |-> "start_video_stream", params |-> [stream_id |-> sid]] :
        sid \in StreamIds}

NextSession ==
    \/ Start
    \/ ConnectOk
    \/ \E id \in Conns : RegistrationOk(id)
    \/ ReceiveLoopEnds
    \/ PingLoopEnds
    \/ SessionEnd
    \/ Wake
    \/ \E p \in SessionCommands : ClientReceive(TextFrame("object", "command", "dict", p))
    \/ \E sid \in StreamIds :
          \/ \E legacy \in BOOLEAN : StreamOpens(sid, legacy)
          \/ StreamFails(sid)
          \/ StreamCancelled(sid)

SpecSession == InitSupervisor /\ [][NextSession]_vars

\* several streams and device actions on one connection
MediaCommands ==
    {[command_id |-> 1, action |-> a, params |-> [stream_id |-> sid]] :
        a \in {"start_video_stream", "stop_video_stream"}, sid \in StreamIds}
    \cup {[command_id |-> 2, action |-> "capture_image"]}

NextMedia ==
    \/ Start
    \/ ConnectOk
    \/ \E id \in Conns : RegistrationOk(id)
    \/ \E p \in MediaCommands : ClientReceive(TextFrame("object", "command", "dict", p))
    \/ StopStreamDone
    \/ DeviceActionDone
    \/ ImageSent
    \/ \E sid \in StreamIds :
          \/ StreamOpens(sid, TRUE)
          \/ StreamFrame(sid, TRUE)
          \/ StreamFails(sid)
          \/ StreamFailDone(sid)
          \/ StreamCancelled(sid)

SpecMedia == InitSupervisor /\ [][NextMedia]_vars

\* one binary frame from send_binary_message to handle_client_binary_message
\* every kind of command, answered at once or after a wait, while the
\* session may end
AnswerCommands ==
    {p \in StreamCommands : p.command_id = 1}
    \cup {[command_id |-> 2, action |-> "capture_image"]}

NextAnswers ==
    \/ Start
    \/ ConnectOk
    \/ \E id \in Conns : RegistrationOk(id)
    \/ ReceiveLoopEnds
    \/ SessionEnd
    \/ \E p \in AnswerCommands : ClientReceive(TextFrame("object", "command", "dict", p))
    \/ StopStreamDone
    \/ DeviceActionDone
    \/ ImageSent
    \/ StreamOpens(S1, TRUE)
    \/ StreamCancelled(S1)

SpecAnswers == InitSupervisor /\ [][NextAnswers]_vars

\* the message loops of both endpoints: handlers of several steps on the
\* client, pings told apart by their timestamps on the server
PingFrame(t) == TextFrame("object", "ping", "dict", [timestamp |-> t])
DispatchFrames == {PingFrame(t) : t \in 1..2}

NextDispatch ==
    \/ \E cl \in Conns : Accept(cl)
    \/ \E cl \in Conns : RegisterOk(cl, ValidRegister)
    \/ \E cl \in Conns : \E m \in DispatchFrames : Receive(cl, m)
    \/ \E cl \in Conns : Disconnected(cl)
    \/ Start
    \/ ConnectOk
    \/ \E id \in Conns : RegistrationOk(id)
    \/ \E p \in MediaCommands : ClientReceive(TextFrame("object", "command", "dict", p))
    \/ StopStreamDone
    \/ DeviceActionDone
    \/ ImageSent
    \/ \E sid \in StreamIds : StreamOpens(sid, TRUE) \/ StreamCancelled(sid)

SpecDispatch == InitEndpoints /\ [][NextDispatch]_vars

\* recordings from their first frame to their end, shutdown included
VidFrame(payload) == BytesFrame(EncodeFrame(VID, 1, S1, payload))
TerminalStatuses == {"error_on_client", "stopped_by_client"}
StatusFrame(sid, st) ==
    TextFrame("object", "stream_status", "dict", [stream_id |-> sid, status |-> st])
WriterFrames ==
    {StatusFrame(S1, st) : st \in {"started"} \cup TerminalStatuses}
    \cup {VidFrame(<<7>>), VidFrame(<<>>)}

NextWriter ==
    \/ \E cl \in Conns : Accept(cl)
    \/ \E cl \in Conns : (\A k \in Conns : k < cl => conn[k] # "registering")
                            /\ RegisterOk(cl, ValidRegister)
    \/ \E cl \in Conns : \E m \in WriterFrames : Receive(cl, m)
    \/ \E action \in {"on", "off"} : ToggleRecording(S1, action)
    \/ \E cl \in Conns : Disconnected(cl)
    \/ ShutdownBegin
    \/ ShutdownClose
    \/ ShutdownDisconnect

SpecWriter == InitShutdown /\ [][NextWriter]_vars

\* two clients and more, their streams and the recordings of them
Peers == 1..(MaxConns + 1)
RecordingFrames ==
    {TextFrame("object", "stream_status", "dict", [stream_id |-> S1, status |-> st]) :
        st \in {"started", "stopped_by_client"}}
    \cup {BytesFrame(EncodeFrame(VID, 1, S1, <<7>>))}

\* ---- binary frames of every kind, on a stream with an entry (S1), on one
\* without (S2) and without a stream id
AUD == <<65, 85, 68, 58>>     \* b"AUD:", a prefix the server does not know
AckFrameArgs ==
    [prefix : {IMG, VID, AUD}, sequence : {1},
     stream_id_str : {NoStreamId, S1, S2}, data : {<<7>>}]
    \cup [prefix : {VID, AUD}, sequence : {256}, stream_id_str : {S2}, data : {<<>>}]
AckFrame(a) == BytesFrame(EncodeFrame(a.prefix, a.sequence, a.stream_id_str, a.data))

NextAcks ==
    \/ \E cl \in Conns : Accept(cl)
    \/ \E cl \in Conns : (\A k \in Conns : k < cl => conn[k] # "registering")
                            /\ RegisterOk(cl, ValidRegister)
    \/ \E cl \in Conns : Receive(cl, StatusFrame(S1, "started"))
    \/ \E cl \in Conns : \E a \in AckFrameArgs : Receive(cl, AckFrame(a))
    \/ ToggleRecording(S1, "on")

SpecAcks == InitShutdown /\ [][NextAcks]_vars

InitRecording ==
    /\ endpoint = "server"
    /\ InitConnections(Peers)
    /\ outbox = [to |-> 0, msg |-> [type |-> NONE]]
    /\ active_connections = {}
    /\ client_id_by_websocket = <<>>
    /\ recorders = <<>>
    /\ future = [c \in Cmds |-> NoFuture]
    /\ pc = [c \in Cmds |-> "idle"]
    /\ target = [c \in Cmds |-> 0]
    /\ result = [c \in Cmds |-> <<>>]
    /\ log = NONE
    /\ is_shutting_down = FALSE
    /\ shutdown_todo = {}
    /\ shutdown_cur = 0
    /\ http_status = [c \in Cmds |-> 0]
    /\ InitClient /\ IdleCodec

NextRecording ==
    \/ \E cl \in Peers : Accept(cl)
    \/ \E cl \in Peers : (\A k \in Peers : k < cl => conn[k] # "registering")
                            /\ RegisterOk(cl, ValidRegister)
    \/ \E cl \in Peers : \E m \in RecordingFrames : Receive(cl, m)
    \/ \E cl \in Peers : Issue(cl)
    \/ \E action \in {"on", "off"} : ToggleRecording(S1, action)
    \/ \E cl \in Peers : Disconnected(cl)

SpecRecording == InitRecording /\ [][NextRecording]_vars

\* two clients and more, and the commands pending on the first of them
SuccessFrames ==
    {TextFrame("object", "command_response", "dict",
               [command_id |-> c, status |-> "success", data |-> "{ok}"]) : c \in IssuedIds}

NextIsolation ==
    \/ \E cl \in Peers : Accept(cl)
    \/ \E cl \in Peers : (\A k \in Peers : k < cl => conn[k] # "registering")
                            /\ RegisterOk(cl, ValidRegister)
    \/ \E cl \in Peers : Disconnected(cl)
    \/ 1 \in active_connections /\ Issue(1)
    \/ \E c \in Cmds : SendDone(c)
    \/ \E c \in Cmds : Timeout(c)
    \/ \E c \in Cmds : Return(c)
    \/ \E cl \in Peers : \E m \in SuccessFrames : Receive(cl, m)

SpecIsolation == InitRecording /\ [][NextIsolation]_vars

InitCodec ==
    /\ endpoint = "codec"
    /\ InitServer /\ ActiveClient
    /\ frame_args \in FrameArgs /\ wire = <<>> /\ frame_seen = <<>>
NextCodec == SendBinary \/ DeliverFrame
SpecCodec == InitCodec /\ [][NextCodec]_vars


\* ================================================================ claims
\* Python's `w in s` on strings
DisconnectReasons == {DefaultReason, ShutdownReason}

\* the three results a caller of send_command_to_client may be given
IsMatchingResponse(c, r) ==
    /\ DOMAIN r = {"status", "command_id", "data", "error_message"}
    /\ r.command_id = c
    /\ \E p \in CommandResponsePayloads({c}) : r = ResponsePackage(p)
IsTimeoutError(c, r) == r = ErrorDict(c, TimeoutText)
IsDisconnectError(c, r) ==
    \E reason \in DisconnectReasons :
        r = ErrorDict(c, "Server error: " \o DisconnectText(c, reason))

\* C1: every call of send_command_to_client that created a command returns
\* exactly one result, whatever the order of response, timeout and
\* disconnect: nothing before it returns, one value once it has, and that
\* value is the matching response, the timeout error or the disconnect
\* error; a call still waiting can always go on (time out or return).
Th_C1 ==
    \A c \in Cmds :
        /\ pc[c] # "done" => result[c] = <<>>
        /\ pc[c] = "done" => Len(result[c]) = 1
        /\ (pc[c] = "done" /\ future[c] # NoFuture) =>
              \/ IsMatchingResponse(c, result[c][1])
              \/ IsTimeoutError(c, result[c][1])
              \/ IsDisconnectError(c, result[c][1])
        /\ pc[c] = "waiting" => (future[c].state = "pending" \/ Done(future[c]))

\* one call has returned the timeout error, another the disconnect error
W_C1 ==
    /\ pc[1] = "done" /\ IsTimeoutError(1, result[1][1])
    /\ pc[2] = "done" /\ IsDisconnectError(2, result[2][1])

\* C2: when a registered client leaves the registry, every command still
\* pending on it is failed with an error whose text carries the reason
\* given to disconnect, its pending table is empty afterwards, and the
\* caller of such a command is returned that error.
Th_C2 ==
    [][ /\ \A cl \in Conns :
             (cl \in active_connections /\ cl \notin active_connections') =>
                /\ pending_commands'[cl] = {}
                /\ \E reason \in DisconnectReasons :
                     \A c \in pending_commands[cl] :
                        future[c].state = "pending" =>
                           /\ future'[c].state = "exception"
                           /\ future'[c].exc = DisconnectText(c, reason)
                           /\ Contains(future'[c].exc, reason)
        /\ \A c \in Cmds :
             (pc'[c] = "done" /\ future'[c].state = "exception") =>
                /\ result'[c] = <<ErrorDict(c, "Server error: " \o future'[c].exc)>>
                /\ \E reason \in DisconnectReasons :
                     Contains(result'[c][1].error_message, reason)
      ]_vars

\* two commands were pending on a client when the server shut down
W_C2 ==
    /\ 1 \notin active_connections /\ pending_commands[1] = {}
    /\ \A c \in Cmds : /\ target[c] = 1
                       /\ future[c].state = "exception"
                       /\ future[c].exc = DisconnectText(c, ShutdownReason)
    /\ pc[1] = "done" /\ pc[2] = "waiting"

\* C3: once the client's session is torn down (websocket cleared), no
\* send_command call is left waiting on an unresolved future.
Cx_C3 ==
    websocket = NONE =>
        \A c \in Calls :
            ~(cpc[c] \in {"sending", "waiting"} /\ cfuture[c].state = "pending")

\* the frame of a command_response with payload p
ResponseFrame(p) == TextFrame("object", "command_response", "dict", p)

\* C4: a command_response for a command whose future is already resolved
\* changes nothing: the future keeps its state and value, no result given
\* to a caller changes, the receive loop goes on, and the result the caller
\* gets is the first response; on the server and on the client.
Th_C4 ==
    [][ /\ \A c \in Cmds :
             /\ Done(future[c]) => future'[c] = future[c]
             /\ result[c] # <<>> => result'[c] = result[c]
             /\ (pc'[c] = "done" /\ future'[c].state = "result") =>
                    result'[c] = <<future'[c].value>>
        /\ \A cl \in Conns : \A c \in pending_commands[cl] :
             Done(future[c]) =>
                \A p \in CommandResponsePayloads({c}) :
                   Receive(cl, ResponseFrame(p)) =>
                      /\ UNCHANGED <<future, result, pending_commands>>
                      /\ log' = "already_done"
                      /\ conn'[cl] = "loop"
        /\ \A c \in Calls :
             /\ Done(cfuture[c]) => cfuture'[c] = cfuture[c]
             /\ cresult[c] # <<>> => cresult'[c] = cresult[c]
             /\ (cpc'[c] = "done" /\ cfuture'[c].state = "result") =>
                    cresult'[c] = <<cfuture'[c].value>>
      ]_vars

\* a second response met a future that the first one had resolved
W_C4 ==
    \E c \in Cmds :
        /\ log = "already_done"
        /\ future[c].state = "result"
        /\ last_seen_time[target[c]] = "frame"

\* C5: a call that timed out has left the pending table, and a
\* command_response that arrives for it afterwards is logged and changes
\* no future, no result and no table entry (a step either did so, or was not
\* the receipt of a response for that call).
Th_C5 ==
    [][ \A c \in Cmds :
          /\ pc'[c] = "done" => \A cl \in Conns : c \notin pending_commands'[cl]
          /\ pc[c] = "done" =>
                \A cl \in Conns :
                   \/ /\ UNCHANGED <<future, result, pending_commands, pc>>
                      /\ log' = (IF cl \in active_connections THEN "unknown_cmd"
                                  ELSE "unknown_client")
                   \/ \A p \in CommandResponsePayloads({c}) : ~Receive(cl, ResponseFrame(p))
      ]_vars

\* a late response for a timed-out command, another command still in flight
W_C5 ==
    \E c, d \in Cmds :
        /\ pc[c] = "done" /\ IsTimeoutError(c, result[c][1])
        /\ log = "unknown_cmd"
        /\ pc[d] = "waiting" /\ future[d].state = "pending" /\ target[d] = target[c]


DroppedFrames == UndecodableFrames \cup UnknownTypeFrames

\* C6: a frame that cannot be decoded, or whose type is unknown, is
\* logged and dropped: on the server the registry, the pending tables, the
\* futures, the callers and the stream entries are as before and the handler
\* is still in its loop on an open websocket; on the client the pending
\* table, its futures, the callers, the websocket and both tasks are as
\* before and the receive loop is still running.
Th_C6 ==
    [][ /\ \A cl \in Conns : \A m \in DroppedFrames :
             Receive(cl, m) =>
                /\ UNCHANGED <<active_connections, pending_commands, active_streams, recorders,
                               future, pc, result>>
                /\ conn'[cl] = "loop" /\ ws_open'[cl]
                /\ log' \in {"JSONDecodeError", "TypeError", "ValidationError",
                                "malformed_binary", "unhandled_type"}
        /\ \A m \in DroppedFrames :
             ClientReceive(m) =>
                /\ UNCHANGED <<pending_outgoing, cfuture, cpc, cresult, websocket,
                               client_id, ping_task, is_running>>
                /\ sup' = "active" /\ receive_task' = "running"
                /\ clog'[1] \in {"processing_error", "unhandled_type"}
      ]_vars

\* invalid JSON was rejected, and the ping that came after it was answered
W_C6 ==
    /\ log = "JSONDecodeError"
    /\ outbox = [to |-> 1, msg |-> [type |-> "pong", timestamp |-> 1]]
    /\ conn[1] = "loop" /\ last_seen_time[1] = "frame"

\* arguments send_binary_message encodes without loss: a sequence number
\* that fits four bytes, no stream id or a non-empty one without U+0000
ValidFrameArgs(a) ==
    /\ a.sequence >= 0
    /\ \/ a.stream_id_str = NoStreamId
       \/ /\ a.stream_id_str # <<>>
          /\ \A i \in 1..Len(a.stream_id_str) : a.stream_id_str[i] # 0

\* C7: the server parses the frame send_binary_message built from valid
\* (prefix, sequence, stream_id, payload) back to those four values.
Th_C7 ==
    (frame_seen # <<>> /\ ValidFrameArgs(frame_args)) =>
        /\ frame_seen[1].ok
        /\ frame_seen[1].prefix = frame_args.prefix
        /\ frame_seen[1].sequence = frame_args.sequence
        /\ frame_seen[1].stream_id = frame_args.stream_id_str
        /\ frame_seen[1].payload = frame_args.data

\* a video frame with a two-byte character in its stream id and a zero
\* byte in its payload went through
W_C7 ==
    /\ frame_seen # <<>>
    /\ frame_args = [prefix |-> VID, sequence |-> 2147483647,
                     stream_id_str |-> <<233, 49>>, data |-> <<0, 7>>]
    /\ frame_seen[1].ok /\ frame_seen[1].payload = <<0, 7>>

\* C8: from one unsuccessful cycle to the next the reconnect delay does not
\* decrease, and it never exceeds 16 times RECONNECT_DELAY_SECONDS.
Cx_C8 ==
    [][ (sup' = "sleeping" /\ sup # "sleeping") =>
           /\ delay' <= 16 * RECONNECT_DELAY_SECONDS
           /\ unsuccessful' > 1 => delay' >= delay
      ]_vars

\* C9: once more than MAX_RECONNECT_ATTEMPTS cycles in a row have failed
\* to reach Active the supervisor has stopped: is_running is false, the
\* shutdown callback was awaited once, no further attempt is made; and it
\* has not stopped for this reason before that many cycles failed.
Cx_C9 ==
    /\ unsuccessful > MAX_RECONNECT_ATTEMPTS =>
          (sup = "finished" /\ ~is_running /\ shutdown_calls = 1)
    /\ shutdown_calls > 0 => unsuccessful >= MAX_RECONNECT_ATTEMPTS
    /\ shutdown_calls <= 1

\* C10: reconnect_attempts goes back to 0 only in the step that makes the
\* Session Active, and after a cycle whose registration failed it counts
\* every cycle since the last Active session.
Cx_C10 ==
    [][ /\ (reconnect_attempts # 0 /\ reconnect_attempts' = 0) => sup' = "active"
        /\ (sup = "registering" /\ sup' \in {"sleeping", "finished"}) =>
               reconnect_attempts' >= unsuccessful'
      ]_vars


\* C11: once stop() has returned the client holds no open transport again,
\* starts no ping, receive or stream task and begins no connection attempt.
Cx_C11 ==
    [][ stop_pc = "returned" =>
          /\ websocket' # "open"
          /\ ping_task' = "running" => ping_task = "running"
          /\ receive_task' = "running" => receive_task = "running"
          /\ \A sid \in StreamIds :
                stream_task'[sid] = "created" => stream_task[sid] = "created"
          /\ sup' = "connecting" => sup = "connecting"
      ]_vars

\* C12: a stop that has returned never leaves the supervisor in its
\* backoff sleep: the sleep ended with the stop, not with its delay.
Cx_C12 == stop_pc = "returned" => sup # "sleeping"


Th_C14 ==
    [][ \A cl \in Conns :
          /\ \A m \in FirstMessages \ {ValidRegister} :
                (RegisterOk(cl, m) \/ RegisterFail(cl, m)) =>
                   /\ conn'[cl] = "finished" /\ ~ws_open'[cl]
                   /\ close_sent'[cl] =
                         [code |-> 1008,
                          reason |-> IF m = NoFirstMessage THEN "Registration timeout"
                                     ELSE "Invalid registration data"]
                   /\ cl \notin active_connections'
                   /\ last_seen_time'[cl] = NONE
          /\ (conn[cl] = "finished" /\ cl \notin active_connections) =>
                (conn'[cl] = "finished" /\ cl \notin active_connections')
      ]_vars

\* a connection was refused for its first message
W_C14 ==
    /\ conn[1] = "finished" /\ 1 \notin active_connections
    /\ close_sent[1] = [code |-> 1008, reason |-> "Invalid registration data"]
    /\ outbox = [to |-> 1, msg |-> [type |-> "error", message |-> "Invalid registration data"]]
    /\ last_seen_time[1] = NONE


\* C15: a command issued over HTTP for a client id that is not in the
\* registry is answered 404; nothing is sent to any client, no future is
\* created and no pending table gets an entry, then or later.
Th_C15 ==
    [][ /\ \A cl \in Conns :
             (Issue(cl) /\ cl \notin active_connections) =>
                /\ \E c \in Cmds : /\ pc[c] = "idle" /\ pc'[c] = "not_found"
                                    /\ http_status'[c] = 404
                /\ UNCHANGED <<outbox, pending_commands, future, result>>
        /\ \A c \in Cmds :
             pc[c] = "not_found" =>
                /\ pc'[c] = "not_found" /\ http_status'[c] = 404
                /\ future'[c] = NoFuture
                /\ \A cl \in Conns : c \notin pending_commands'[cl]
      ]_vars

\* a command for a client that had left the registry, after one that was
\* sent to it
W_C15 ==
    /\ pc[1] = "waiting" /\ future[1].state = "exception" /\ http_status[1] = 0
    /\ pc[2] = "not_found" /\ http_status[2] = 404 /\ target[2] = target[1]
    /\ future[2] = NoFuture /\ result[2] = <<>>

\* C16: the status code of a finished HTTP command call follows from its
\* cause: 408 when the wait timed out, 502 when the client disconnected or
\* answered with an error, 200 when it answered with success.
Cx_C16 ==
    \A c \in Cmds :
        pc[c] = "done" =>
            http_status[c] = (IF future[c].state = "cancelled" THEN 408
                              ELSE IF future[c].state = "exception" THEN 502
                              ELSE IF future[c].value.status = "success" THEN 200
                              ELSE 502)

\* C17: a command whose action has no handler, or whose handler raises, is
\* answered with an error command_response that echoes the command's
\* command_id, and the receive loop is left ready for the next message.
AnsweredWithError(id) ==
    /\ client_outbox'.type = "command_response"
    /\ client_outbox'.status = "error"
    /\ client_outbox'.command_id = id
    /\ receive_task' = "running" /\ handler' = NoHandler
    /\ sup' = "active" /\ websocket' = "open"

Th_C17 ==
    [][ /\ \A p \in {q \in StreamCommands : q.action \notin HandledActions} :
             ClientReceive(TextFrame("object", "command", "dict", p))
                => AnsweredWithError(p.command_id)
        /\ (/\ handler.action \in DeviceActions /\ websocket = "open"
            /\ clog' # clog /\ clog' = <<"handler_error", handler.command_id>>
            /\ DeviceActionDone)
           => AnsweredWithError(handler.command_id) ]_vars

W_C17 ==
    /\ clog = <<"handler_error", 2>>
    /\ client_outbox = ErrorResponse(2, "Client execution error: e")
    /\ receive_task = "running" /\ handler = NoHandler /\ websocket = "open"

\* C18: with several commands in flight, a step that resolves the pending
\* future of one command, by a response or by a timeout, changes no other
\* future and no pending table, and the response it is resolved with carries
\* that command's own command_id; the return of one call leaves the futures
\* and the table entries of all the others as they were.
Th_C18 ==
    [][\A c \in Cmds :
          /\ (future[c].state = "pending" /\ future'[c].state \in {"result", "cancelled"})
             => /\ \A d \in Cmds \ {c} : future'[d] = future[d]
                /\ pending_commands' = pending_commands
                /\ future'[c].state = "result" => future'[c].value.command_id = c
          /\ (pc[c] = "waiting" /\ pc'[c] = "done")
             => /\ \A d \in Cmds \ {c} : future'[d] = future[d]
                /\ \A cl \in Conns :
                      pending_commands'[cl] \ {c} = pending_commands[cl] \ {c}]_vars

\* two commands wait on client 1; the second was answered first
W_C18 ==
    /\ target[1] = 1 /\ target[2] = 1
    /\ pc[1] = "waiting" /\ pc[2] = "waiting"
    /\ future[1].state = "pending"
    /\ future[2].state = "result" /\ future[2].value.command_id = 2

\* C19: start_video_stream for "s1", frames, then stop_video_stream for "s1"
\* on an open connection, the stream task not failing: when the stop command
\* has been answered the client has sent exactly one stream_status 'started'
\* and exactly one terminal stream_status for "s1", and "s1" is not in
\* _active_video_streams.
StopAnswered ==
    \E c \in Cmds : client_outbox = SuccessResponse(c, "Video stream stopped successfully")

Th_C19 ==
    (StopAnswered /\ emitted[S1].frames >= 1 /\ ~emitted[S1].failed)
    => /\ emitted[S1].started = 1
       /\ emitted[S1].terminal = 1
       /\ S1 \notin active_video_streams

W_C19 ==
    /\ StopAnswered /\ emitted[S1].frames = MaxFrames /\ ~emitted[S1].failed
    /\ emitted[S1].started = 1 /\ emitted[S1].terminal = 1
    /\ stream_task[S1] = "finished" /\ handler = NoHandler /\ websocket = "open"

\* C20: ClientInfo.active_streams holds no terminated stream: no entry whose
\* last reported status is stopped_by_client or error_on_client, and no entry
\* at all once the connection that owned it has been torn down.
Cx_C20 ==
    \A cl \in Conns :
       /\ \A sid \in DOMAIN active_streams[cl] :
             active_streams[cl][sid].client_reported_status
                \notin {"stopped_by_client", "error_on_client"}
       /\ (conn[cl] = "finished" /\ cl \notin active_connections)
          => active_streams[cl] = <<>>


\* C21: a stream whose capture device cannot be opened reports a
\* stream_status that carries a reason and is not 'started', sends neither
\* 'started' nor a video frame at any later step, and when its task has ended
\* its id is no longer in _active_video_streams.
Th_C21 ==
    [][\A sid \in StreamIds :
          /\ StreamCannotOpen(sid) =>
                /\ emitted'[sid].started = 0 /\ emitted'[sid].frames = 0
                /\ websocket = "open" =>
                      /\ client_outbox'.type = "stream_status"
                      /\ client_outbox'.stream_id = sid
                      /\ client_outbox'.status = "error_on_client"
                      /\ client_outbox'.reason # NONE
                /\ websocket # "open" => sid \notin active_video_streams'
          /\ (stream_task[sid] = "unopened" /\ stream_task'[sid] # "unopened") =>
                /\ emitted'[sid].started = 0 /\ emitted'[sid].frames = 0
                /\ binary_sent' = binary_sent
                /\ stream_task'[sid] \in {"finished", "cancelling"}
                /\ stream_task'[sid] = "finished" => sid \notin active_video_streams'
          /\ (stream_task[sid] = "cancelling" /\ stream_task'[sid] # "cancelling") =>
                /\ stream_task'[sid] = "finished"
                /\ sid \notin active_video_streams'
                /\ emitted'[sid] = emitted[sid] ]_vars

W_C21 ==
    /\ stream_task[S1] = "finished" /\ S1 \notin active_video_streams
    /\ emitted[S1] = [started |-> 0, terminal |-> 2, frames |-> 0, failed |-> TRUE]
    /\ client_outbox = StreamStatusMsg(S1, "stopped_by_client",
                                       "Stream loop ended unexpectedly on client.")
    /\ websocket = "open"

\* C22: a turn of the frame loop in which cap.read() or cv2.imencode fails
\* ends the stream: its task leaves the streaming state, its id leaves
\* _active_video_streams and a stream_status with a reason is sent.
Cx_C22 ==
    [][\A sid \in StreamIds :
          (\E legacy \in BOOLEAN : StreamFrameFails(sid, legacy))
          => /\ stream_task'[sid] # "streaming"
             /\ sid \notin active_video_streams'
             /\ client_outbox'.type = "stream_status"
             /\ client_outbox'.stream_id = sid
             /\ client_outbox'.status \in {"error_on_client", "stopped_by_client"} ]_vars

\* C23: a step in which the task of one stream is cancelled, fails or ends
\* leaves the receive task, the ping task and the websocket as they were, and
\* every other stream as it was: its task, its entry in
\* _active_video_streams and what it has sent.
Th_C23 ==
    [][\A sid \in StreamIds :
          (/\ stream_task[sid] \in Running
           /\ stream_task'[sid] # stream_task[sid]
           /\ stream_task'[sid] \in {"finished", "failing"} \cup Cancelling)
          => /\ receive_task' = receive_task /\ ping_task' = ping_task
             /\ websocket' = websocket
             /\ \A o \in StreamIds \ {sid} :
                   /\ stream_task'[o] = stream_task[o]
                   /\ o \in active_video_streams' <=> o \in active_video_streams
                   /\ emitted'[o] = emitted[o] ]_vars

\* "s1" was stopped by a command while "s2" streams
W_C23 ==
    /\ stream_task[S1] = "finished" /\ S1 \notin active_video_streams
    /\ emitted[S1].terminal = 1 /\ handler = NoHandler
    /\ stream_task[S2] = "streaming" /\ S2 \in active_video_streams
    /\ emitted[S2].frames >= 1
    /\ receive_task = "running" /\ ping_task = "running" /\ websocket = "open"

\* C24: the cleanup of a stream task that is no longer the one listed under
\* its id removes nothing from _active_video_streams: the entry a newer task
\* of the same id has there stays.
Cx_C24 ==
    [][\A sid \in StreamIds :
          UnlistedTaskEnds(sid) => active_video_streams' = active_video_streams]_vars

\* C25: the step that follows the end of the receive loop or of the ping loop
\* leaves neither loop task running, cancels every stream task of the table,
\* empties the table and clears websocket and client_id; and when
\* connect_and_run goes on to its next connection attempt all of this is
\* still so and the cancelled stream tasks have ended.
Th_C25 ==
    [][ /\ (sup = "active" /\ SessionEnd) =>
              /\ ping_task' # "running" /\ receive_task' # "running"
              /\ \A sid \in active_video_streams :
                    stream_task'[sid] \in Cancelling
              /\ active_video_streams' = {}
              /\ websocket' = NONE /\ client_id' = NoClientId
              /\ sup' \in {"sleeping", "finished"}
        /\ (sup = "sleeping" /\ sup' = "connecting") =>
              /\ ping_task # "running" /\ receive_task # "running"
              /\ \A sid \in StreamIds : stream_task[sid] \notin Running
              /\ active_video_streams = {}
              /\ websocket = NONE /\ client_id = NoClientId ]_vars

\* a session with both streams open has ended and the next attempt is under way
W_C25 ==
    /\ sup = "connecting" /\ reconnect_attempts = 1
    /\ stream_task[S1] = "finished" /\ stream_task[S2] = "finished"
    /\ emitted[S1].started = 1 /\ emitted[S2].started = 1
    /\ active_video_streams = {}
    /\ ping_task = "cancelled" /\ receive_task = "done"
    /\ websocket = NONE /\ client_id = NoClientId

\* C26: text messages are handled one at a time and in arrival order on both
\* endpoints.  Client: the receive loop takes a message only while no handler
\* is under way, a handler under way is not replaced by another, and every
\* command_response sent meanwhile answers the command being handled.
\* Server: the step that receives a ping sends the pong of that very ping
\* and returns to the message loop of the connection.
Th_C26 ==
    [][ /\ handler # NoHandler =>
              /\ \A p \in MediaCommands :
                    ~ClientReceive(TextFrame("object", "command", "dict", p))
              /\ handler' # NoHandler => handler'.command_id = handler.command_id
              /\ (client_outbox' # client_outbox
                     /\ client_outbox'.type = "command_response") =>
                    client_outbox'.command_id = handler.command_id
        /\ endpoint = "server" =>
              \A cl \in Conns : \A t \in 1..2 :
                  Receive(cl, PingFrame(t)) =>
                      /\ outbox' = [to |-> cl, msg |-> [type |-> "pong", timestamp |-> t]]
                      /\ conn'[cl] = "loop" ]_vars

\* a stop command and a capture command were handled one after the other,
\* each over several steps
W_C26 ==
    /\ handler = NoHandler /\ websocket = "open"
    /\ stream_task[S1] = "finished" /\ emitted[S1].terminal = 1
    /\ \E i \in 1..Len(binary_sent) : binary_sent[i].prefix = "IMG:"

\* C27: while speak_text or capture_image is executing on an open session,
\* the receive loop can take the next inbound message, a stop_video_stream
\* command for instance: the device action does not hold up the dispatch.
Cx_C27 ==
    (/\ handler.action \in DeviceActions
     /\ sup = "active" /\ receive_task = "running" /\ websocket = "open")
    => ENABLED ClientReceive(TextFrame("object", "command", "dict",
                  [command_id |-> 1, action |-> "stop_video_stream",
                   params |-> [stream_id |-> S1]]))

\* C28: of the binary frames a client has sent, no two carry the same
\* sequence number, and of two VID: frames of one stream the later one
\* carries the greater number, whatever streams and images are under way.
Th_C28 ==
    \A i, j \in 1..Len(binary_sent) :
        i < j =>
            /\ binary_sent[i].sequence # binary_sent[j].sequence
            /\ (/\ binary_sent[i].prefix = "VID:" /\ binary_sent[j].prefix = "VID:"
                /\ binary_sent[i].stream_id = binary_sent[j].stream_id)
               => binary_sent[i].sequence < binary_sent[j].sequence

\* an image took number 1, a frame of "s1" took number 2 and went out before
\* the image did, while "s2" is streaming as well
W_C28 ==
    /\ binary_sent = <<BinaryFrame("VID:", 2, S1), BinaryFrame("IMG:", 1, <<>>)>>
    /\ stream_task[S1] = "streaming" /\ stream_task[S2] = "streaming"

\* C29: a frame received from one client, or the end of its connection,
\* leaves every other client's registration, pending commands and streams as
\* they were, and every recording opened by another client's frames running,
\* also when both clients name their stream "s1".
Cx_C29 ==
    [][\A a \in Peers :
          (Disconnected(a) \/ \E m \in RecordingFrames : Receive(a, m)) =>
              \A b \in Peers \ {a} :
                  /\ (b \in active_connections) = (b \in active_connections')
                  /\ pending_commands'[b] = pending_commands[b]
                  /\ active_streams'[b] = active_streams[b]
                  /\ \A sid \in DOMAIN recorders :
                        recorders[sid] = b =>
                            sid \in DOMAIN recorders' /\ recorders'[sid] = b]_vars

\* C30: a start_video_stream command for an id that is in
\* _active_video_streams is answered with the error "already active", starts
\* no task and leaves the listed task, the table and what the stream has
\* sent as they are; an id enters the table only in a step that creates the
\* one task listed under it; and a start for an id that is not in the table,
\* its earlier stream having ended, lists a new task and is answered with
\* success.
Th_C30 ==
    [][ /\ \A sid \in StreamIds :
              (sid \notin active_video_streams /\ sid \in active_video_streams') =>
                  stream_task'[sid] = "created"
        /\ \A c \in Cmds :
              ClientReceive(TextFrame("object", "command", "dict",
                    [command_id |-> c, action |-> "start_video_stream",
                     params |-> [stream_id |-> S1]])) =>
                 IF S1 \in active_video_streams
                 THEN /\ client_outbox' = ErrorResponse(c, "Stream already active.")
                      /\ stream_task' = stream_task /\ unlisted_task' = unlisted_task
                      /\ active_video_streams' = active_video_streams
                      /\ emitted' = emitted
                 ELSE /\ client_outbox' = SuccessResponse(c, "Video stream initiated.")
                      /\ stream_task'[S1] = "created"
                      /\ active_video_streams' = active_video_streams \cup {S1} ]_vars

\* the stream "s1" goes on streaming after a second start was refused
W_C30 ==
    /\ client_outbox = ErrorResponse(1, "Stream already active.")
    /\ stream_task[S1] = "streaming" /\ S1 \in active_video_streams
    /\ emitted[S1].started = 1 /\ emitted[S1].frames >= 1

\* C31: a writer is in the table only for a stream of a connection whose
\* handler is running, that has received a frame and is marked for recording,
\* and only before the stream manager has shut down; a writer enters the
\* table only in the step that receives a frame of a stream marked for
\* recording; and disabling the recording, a terminal stream_status, the end
\* of the connection, a failed write and the shutdown each leave the stream
\* without a writer.  The table has one slot for each stream id.
Th_C31 ==
    [][ /\ \A sid \in DOMAIN recorders' :
              LET o == recorders'[sid] IN
              /\ conn'[o] = "loop" /\ sid \in DOMAIN active_streams'[o]
              /\ active_streams'[o][sid].is_recording = "True"
              /\ active_streams'[o][sid].last_frame_seq # <<>>
              /\ ~stream_manager_is_shutting_down'
        /\ \A sid \in DOMAIN recorders' \ DOMAIN recorders :
              /\ DOMAIN recorders' = DOMAIN recorders \cup {sid}
              /\ \E cl \in Conns :
                    /\ Receive(cl, VidFrame(<<7>>))
                    /\ active_streams[cl][sid].is_recording = "True"
                    /\ recorders'[sid] = cl
        /\ ToggleRecording(S1, "off") => S1 \notin DOMAIN recorders'
        /\ \A cl \in Conns :
              /\ \A st \in TerminalStatuses :
                    Receive(cl, StatusFrame(S1, st)) => S1 \notin DOMAIN recorders'
              /\ Disconnected(cl) =>
                    \A sid \in DOMAIN active_streams[cl] : sid \notin DOMAIN recorders'
              /\ \A sid \in DOMAIN active_streams[cl] :
                    (/\ active_streams[cl][sid].is_recording = "True"
                     /\ active_streams'[cl][sid].is_recording # "True")
                    => sid \notin DOMAIN recorders'
        /\ stream_manager_is_shutting_down' => recorders' = <<>> ]_vars

\* the first frame of a stream marked for recording has opened its writer
W_C31 ==
    /\ recorders = (S1 :> 1) /\ conn[1] = "loop" /\ ~is_shutting_down
    /\ active_streams[1][S1].is_recording = "True"
    /\ active_streams[1][S1].client_reported_status = "started"
    /\ active_streams[1][S1].last_frame_seq = <<1>>

\* C32: the step in which the server receives a command envelope from a
\* client sends that client a command_response with the command's id.
Cx_C32 ==
    [][\A cl \in Conns :
          (CanSend(cl) /\ Receive(cl, ClientCommandFrame(1))) =>
              /\ outbox'.to = cl
              /\ outbox'.msg.type = "command_response"
              /\ outbox'.msg.command_id = 1]_vars

\* C33: whichever way a stream ends, the client has sent at most one
\* terminal stream_status (stopped_by_client or error_on_client) for it.
Cx_C33 == \A sid \in StreamIds : emitted[sid].terminal <= 1

\* C34: a command received on an open connection is answered exactly once.
\* Its handler either answers in the step that receives it or waits and
\* answers, with the command's id, in the step that ends the wait; the image
\* that follows the answer of capture_image is no second answer; and no step
\* of any other task sends a command_response.
Answered(id) ==
    client_outbox'.type = "command_response" /\ client_outbox'.command_id = id

Th_C34 ==
    [][ /\ \A p \in AnswerCommands :
              ClientReceive(TextFrame("object", "command", "dict", p)) =>
                  IF handler' = NoHandler THEN Answered(p.command_id)
                  ELSE /\ client_outbox' = client_outbox
                       /\ handler'.command_id = p.command_id
        /\ (handler # NoHandler /\ handler' # handler /\ websocket = "open") =>
              IF handler.action = "send_image"
              THEN client_outbox' = client_outbox /\ handler' = NoHandler
              ELSE /\ Answered(handler.command_id)
                   /\ \/ handler' = NoHandler
                      \/ /\ handler'.action = "send_image"
                         /\ handler'.command_id = handler.command_id
        /\ (handler # NoHandler /\ handler' = handler) =>
              (client_outbox' = client_outbox \/ client_outbox'.type # "command_response")
        /\ (/\ handler = NoHandler /\ handler' = NoHandler
            /\ client_outbox' # client_outbox
            /\ client_outbox'.type = "command_response")
           => \E p \in AnswerCommands :
                  ClientReceive(TextFrame("object", "command", "dict", p)) ]_vars

\* capture_image was answered after its wait, the image followed, and the
\* receive loop is ready for the next command
W_C34 ==
    /\ client_outbox = SuccessResponse(2, "Image captured. Sending binary data.")
    /\ binary_sent = <<BinaryFrame("IMG:", 1, <<>>)>>
    /\ handler = NoHandler /\ websocket = "open" /\ receive_task = "running"

\* C35: while a command is pending on client A, a command_response with its
\* command_id that arrives from any other client leaves its future as it
\* was; the future is resolved only by a response received from A, by the
\* timeout of the call, or by the end of A's connection.
ResponseFrames(c) == {m \in SuccessFrames : m.payload.command_id = c}

Th_C35 ==
    [][\A c \in Cmds :
          (target[c] # 0 /\ future[c].state = "pending") =>
              /\ \A b \in Peers \ {target[c]} : \A m \in ResponseFrames(c) :
                    Receive(b, m) => future'[c] = future[c]
              /\ future'[c] # future[c] =>
                    \/ /\ future'[c].state = "result"
                       /\ \E m \in ResponseFrames(c) : Receive(target[c], m)
                    \/ future'[c].state = "cancelled" /\ Timeout(c)
                    \/ future'[c].state = "exception" /\ Disconnected(target[c]) ]_vars

\* client 2 has answered with the id of the command that is pending on
\* client 1, which goes on waiting
W_C35 ==
    /\ target[1] = 1 /\ pc[1] = "waiting" /\ future[1].state = "pending"
    /\ pc[2] = "idle" /\ log = "unknown_cmd"
    /\ 2 \in active_connections /\ last_seen_time[2] = "frame"

\* C36: once cleanup_on_shutdown has completed the registry is empty, and
\* it stays empty whatever connections were accepted before.
Cx_C36 ==
    (is_shutting_down /\ shutdown_todo = {} /\ shutdown_cur = 0)
        => active_connections = {}

\* C37: when connect_and_run(startup_only=True) has returned after a
\* successful registration the transport is open and client_id is the id the
\* server assigned.  The return runs the exit of `async with` and the finally
\* clause first, so this is violated
Cx_C37 == sup = "returned" => websocket = "open" /\ client_id \in Conns

\* C38: in every reachable state the two indices of the registry agree:
\* client_id_by_websocket has an entry for a websocket exactly when
\* active_connections holds the ClientInfo of that websocket, and the entry is
\* that ClientInfo's id; once a connection's handler has finished, its client
\* id is in neither index.
Th_C38 ==
    /\ DOMAIN client_id_by_websocket = {WebsocketOf(cl) : cl \in active_connections}
    /\ \A cl \in active_connections : client_id_by_websocket[WebsocketOf(cl)] = cl
    /\ \A cl \in DOMAIN conn :
          conn[cl] = "finished" =>
             /\ cl \notin active_connections
             /\ \A w \in DOMAIN client_id_by_websocket : client_id_by_websocket[w] # cl

\* the handler of a client that had registered has finished
W_C38 ==
    /\ conn[1] = "finished" /\ last_seen_time[1] = "registration"
    /\ client_id_by_websocket = <<>>

\* C39: a pending-command table holds an entry for a command_id only while
\* the call that issued the command is between its table write and its
\* return: every entry of a ClientInfo's table belongs to a call on that
\* client that is sending or waiting, and so does every entry of the client's
\* own table of outgoing commands; a call that has returned has no entry.
Th_C39 ==
    /\ \A cl \in DOMAIN pending_commands : \A c \in pending_commands[cl] :
          pc[c] \in {"sending", "waiting"} /\ target[c] = cl
    /\ \A c \in pending_outgoing : cpc[c] \in {"sending", "waiting"}
    /\ \A c \in Cmds : pc[c] \in {"done", "not_found"} =>
          \A cl \in DOMAIN pending_commands : c \notin pending_commands[cl]

\* a call ended by the disconnect of its client has returned and the table
\* of that client is empty
W_C39 ==
    \E c \in Cmds :
        /\ pc[c] = "done" /\ future[c].state = "exception"
        /\ pending_commands[target[c]] = {}

====
